---- MODULE Spec2Model ----
(***************************************************************************)
(* Session store (AuthProvider), API client error shaping and the expense  *)
(* form of the ExpenseFrontend repository, as a state machine.             *)
(*                                                                         *)
(* Strings whose content the code inspects (error messages, form fields)   *)
(* are sequences of one-character strings.  Values written to local        *)
(* storage are tagged by the conversion that produced them                 *)
(* (JSON.stringify, Number.toString), so that a value read back is only    *)
(* what the inverse conversion yields.                                     *)
(***************************************************************************)
EXTENDS Integers, Sequences, FiniteSets, TLC

(***************************************************************************)
(* Bounds of the model                                                     *)
(***************************************************************************)
\* Seconds the clock advances, and seconds a stored session may predate it
MaxNow == 1
\* Calls the user may have outstanding at once: login and signup calls on
\* the session store (beside the one lookup of a page load), calls of any
\* kind on the Expenses screen
MaxInFlight == 1
\* Attachments of one expense
MaxAttachments == 1

(***************************************************************************)
(* Program constants                                                       *)
(***************************************************************************)
MsPerSecond == 1000

Null == <<>>

\* AuthProvider, local storage, clock, router
VARIABLES localStorage, user, loading, effectRan, authInFlight, nowSec, route, last
\* Expenses screen
VARIABLES expenses, expLoading, expEffectRan, dialogOpen, editingExpense, uploadingFile,
          selectedFile, formData, expInFlight, formLast

authVars == <<localStorage, user, loading, effectRan, authInFlight, nowSec, route, last>>
formVars == <<expenses, expLoading, expEffectRan, dialogOpen, editingExpense, uploadingFile,
              selectedFile, formData, expInFlight, formLast>>
\* ApiClient.request seen on its own: the response fetch resolved with, and
\* what request() did with it
VARIABLES httpResponse, requestResult

\* The backend, as far as the screens depend on it: the ids of the expenses
\* it has deleted and the objects of its file store
VARIABLES deletedIds, storedFiles
\* Files screen
VARIABLES files, filesLoading, filesUploading, filesEffectRan, filesInFlight
\* Profile screen
VARIABLES profile, profLoading, fullName, profEffectRan, profInFlight
\* Dashboard screen
VARIABLES dashExpenses, dashLoading, dashEffectRan, dashInFlight
\* Signup page
VARIABLES signupName, signupEmail, signupPassword, signupConfirm, signupErrors,
          signupLoading, signupLast

apiVars == <<httpResponse, requestResult>>
backendVars == <<deletedIds, storedFiles>>
filesVars == <<files, filesLoading, filesUploading, filesEffectRan, filesInFlight>>
profileVars == <<profile, profLoading, fullName, profEffectRan, profInFlight>>
dashVars == <<dashExpenses, dashLoading, dashEffectRan, dashInFlight>>
signupVars == <<signupName, signupEmail, signupPassword, signupConfirm, signupErrors,
                signupLoading, signupLast>>
otherVars == <<apiVars, backendVars, filesVars, profileVars, dashVars, signupVars>>
vars == <<authVars, formVars, otherVars>>

(***************************************************************************)
(* Strings                                                                 *)
(***************************************************************************)
EmptyStr == <<>>
Str404 == <<"4", "0", "4">>
NotFoundMsg == <<"N", "o", "t", " ", "F", "o", "u", "n", "d">>
Upstream404Msg == <<"u", "p", "s", "t", "r", "e", "a", "m", " ", "4", "0", "4">>
UnauthorizedMsg == <<"U", "n", "a", "u", "t", "h", "o", "r", "i", "z", "e", "d">>
RequestFailedMsg == <<"R", "e", "q", "u", "e", "s", "t", " ", "f", "a", "i", "l", "e", "d">>
FailedToFetchMsg == <<"F", "a", "i", "l", "e", "d", " ", "t", "o", " ", "f", "e", "t", "c", "h">>

\* String.prototype.includes
Includes(s, sub) ==
    \E i \in 1..(Len(s) - Len(sub) + 1) : SubSeq(s, i, i + Len(sub) - 1) = sub

(***************************************************************************)
(* The backend: accounts, tokens, responses                                *)
(***************************************************************************)
UserIds == {"A", "B"}
Names == {"n1", "n2"}
Users == [id : UserIds, name : Names]
\* user: User | null
NoUser == [id |-> "null", name |-> "null"]
Emails == {"a@x", "b@x"}
AccountOf == [e \in Emails |-> IF e = "a@x" THEN "A" ELSE "B"]
TokenOf == [i \in UserIds |-> IF i = "A" THEN "tokA" ELSE "tokB"]
Tokens == {TokenOf[i] : i \in UserIds}
OwnerOf(t) == CHOOSE i \in UserIds : TokenOf[i] = t
\* expires_in, in seconds
ExpiresIn == {1, 2}

\* AuthResponse of POST /auth/login and POST /auth/signup
AuthResponses(email) ==
    {[token |-> TokenOf[AccountOf[email]], expires_in |-> x, user |-> u] :
        x \in ExpiresIn, u \in {v \in Users : v.id = AccountOf[email]}}
NoResponse == [token |-> "none", expires_in |-> 0, user |-> NoUser]

\* The value of a field of a JSON body: a string, or an array of objects
\* (FastAPI reports request-validation errors as {"detail": [{...}, ...]}).
\* text is the string, or the text the array's objects hold; the empty
\* string also stands for a field that is missing (both are falsy).
Str(s) == [type |-> "string", text |-> s, items |-> 0]
Arr(n, s) == [type |-> "array", text |-> s, items |-> n]
\* Truthiness: every array is truthy, a string is unless it is empty
Truthy(v) == v.type = "array" \/ v.text # EmptyStr
\* String(v), which new Error(v) applies to its argument: an array is its
\* elements' String joined by commas, and String of an object is
\* "[object Object]"
ObjectObjectStr ==
    <<"[", "o", "b", "j", "e", "c", "t", " ", "O", "b", "j", "e", "c", "t", "]">>
RECURSIVE JoinObjects(_)
JoinObjects(n) ==
    IF n = 0 THEN EmptyStr
    ELSE IF n = 1 THEN ObjectObjectStr
    ELSE JoinObjects(n - 1) \o <<",">> \o ObjectObjectStr
StringOf(v) == IF v.type = "array" THEN JoinObjects(v.items) ELSE v.text

\* A failed call: either fetch itself rejects (network) or the backend
\* answers a non-success status with an error body.  A body is either not
\* JSON at all or an object whose detail and message may be missing.
ErrorBody(json, detail, message) ==
    [json |-> json, detail |-> Str(detail), message |-> Str(message)]
ErrorBodies ==
    {ErrorBody(FALSE, EmptyStr, EmptyStr),
     ErrorBody(TRUE, EmptyStr, EmptyStr),
     ErrorBody(TRUE, EmptyStr, UnauthorizedMsg),
     ErrorBody(TRUE, NotFoundMsg, UnauthorizedMsg),
     ErrorBody(TRUE, Upstream404Msg, EmptyStr)}
FailStatuses == {401, 404, 500}
HttpFailures == [kind : {"http"}, status : FailStatuses, body : ErrorBodies]
NetworkFailure == [kind |-> "network", status |-> 0, body |-> ErrorBody(FALSE, EmptyStr, EmptyStr)]
Failures == HttpFailures \cup {NetworkFailure}

\* a || b
OrElse(a, b) == IF Truthy(a) THEN a ELSE b

\* ApiClient.request, the non-ok branch: the Error it throws.  The Error
\* carries a message and nothing else (no status field).  A rejected fetch
\* propagates the TypeError of fetch.
RequestError(failure) ==
    IF failure.kind = "network"
    THEN [message |-> FailedToFetchMsg]
    ELSE LET error == IF failure.body.json
                      THEN failure.body
                      ELSE ErrorBody(TRUE, EmptyStr, RequestFailedMsg)
         IN [message |-> StringOf(OrElse(error.detail,
                                         OrElse(error.message, Str(RequestFailedMsg))))]

\* error.status === 404 as the code evaluates it: a missing field is
\* undefined, which is not 404
StatusIs404(error) == "status" \in DOMAIN error /\ error.status = 404

(***************************************************************************)
(* Local storage and conversions                                           *)
(***************************************************************************)
OtherKey == "other_key"
SessionKeys == {"auth_token", "tokenExpiry", "user_data"}
StorageKeys == SessionKeys \cup {OtherKey}

\* Stored values are tagged tuples; Null (the empty tuple) is an absent key.
TokenString(t) == <<"string", t>>
Stringify(u) == <<"json", u>>
IsJson(s) == s # Null /\ s[1] = "json"
Parse(s) == s[2]
NumberToString(n) == <<"digits", n>>
DateNow == nowSec * MsPerSecond

SetItem(store, k, v) == [store EXCEPT ![k] = v]
RemoveItem(store, k) == [store EXCEPT ![k] = Null]

\* getAuthHeader without the check that a token is stored
getAuthHeaderNoCheck(store) ==
    <<"Bearer", IF store["auth_token"] # Null THEN store["auth_token"][2] ELSE "null">>

\* ApiClient.getAuthHeader
getAuthHeader(store) ==
    IF store["auth_token"] # Null THEN <<"Bearer", store["auth_token"][2]>> ELSE Null

EmptyStorage == [k \in StorageKeys |-> Null]

\* What fetch is called with: the operation's endpoint and the Authorization
\* header (Null: the header is not set)
HttpRequest(op, authorization) == [op |-> op, authorization |-> authorization]
NoBearer == <<"">>

\* ApiClient.request up to its fetch (lines 65-76): the calls of fetch it
\* makes.  No caller passes headers of its own.
\* request() calling fetch again after the first call
FetchesTwice(store, op) ==
    <<HttpRequest(op, getAuthHeader(store)), HttpRequest(op, getAuthHeader(store))>>

Fetches(store, op) == <<HttpRequest(op, getAuthHeader(store))>>

\* ApiClient.uploadFile up to its fetch (lines 155-165): without a token the
\* header is set to the empty string
UploadFetches(store) ==
    <<HttpRequest("uploadFile",
                  IF store["auth_token"] # Null
                  THEN <<"Bearer", store["auth_token"][2]>> ELSE NoBearer)>>

\* PersistSession with the expiry computed in seconds instead of milliseconds
PersistSessionSeconds(store, resp, nowMs) ==
    LET s1 == SetItem(store, "auth_token", TokenString(resp.token))
        expiryTime == nowMs + resp.expires_in
        s2 == SetItem(s1, "tokenExpiry", NumberToString(expiryTime))
    IN SetItem(s2, "user_data", Stringify(resp.user))

\* The three writes of login/signup, lines 250-257 and 278-285
PersistSession(store, resp, nowMs) ==
    LET s1 == SetItem(store, "auth_token", TokenString(resp.token))
        expiryTime == nowMs + (resp.expires_in * MsPerSecond)
        s2 == SetItem(s1, "tokenExpiry", NumberToString(expiryTime))
    IN SetItem(s2, "user_data", Stringify(resp.user))

\* ClearSession that leaves the expiry behind
ClearSessionKeepExpiry(store) ==
    RemoveItem(RemoveItem(store, "auth_token"), "user_data")

\* The three removals of logout and of checkAuth's catch
ClearSession(store) ==
    RemoveItem(RemoveItem(RemoveItem(store, "auth_token"), "tokenExpiry"), "user_data")

(***************************************************************************)
(* What the last handler did, as seen from outside: whether it consumed an *)
(* answer and its HTTP status (0 for a rejected fetch), the toast, the     *)
(* route it navigated to, whether its promise resolved or rejected, the    *)
(* response body it consumed, and the session state it started from.       *)
(***************************************************************************)
KeysPresent(store) == {k \in SessionKeys : store[k] # Null}

SessionState ==
    IF KeysPresent(localStorage) = {} /\ user = NoUser THEN "anonymous"
    ELSE IF localStorage["auth_token"] # Null /\ user # NoUser THEN "authenticated"
    ELSE "partial"

NoToast == [title |-> "none", description |-> EmptyStr]
Toast(title, description) == [title |-> title, description |-> description]
Answer(status) == IF status = 200 THEN "ok" ELSE "error"
Event(op, outcome, answer, status, toast, nav, resp) ==
    [op |-> op, outcome |-> outcome, answer |-> answer, status |-> status, error |-> EmptyStr,
     toast |-> toast, nav |-> nav, resp |-> resp, from |-> SessionState,
     calls |-> <<>>, sent |-> <<>>]
\* The handler called the API client's operations calls, which called fetch
\* with sent
Calling(event, calls, sent) == [event EXCEPT !.calls = calls, !.sent = sent]
ErrorEvent(op, outcome, failure, toast) ==
    [Event(op, outcome, "error", failure.status, toast, "none", NoResponse)
        EXCEPT !.error = RequestError(failure).message]
NoEvent ==
    [op |-> "none", outcome |-> "none", answer |-> "none", status |-> 0, error |-> EmptyStr, toast |-> NoToast, nav |-> "none",
     resp |-> NoResponse, from |-> "anonymous", calls |-> <<>>, sent |-> <<>>]

Pending(kind) == {r \in authInFlight : r.kind = kind}
Request(kind, email, store) == [kind |-> kind, email |-> email, bearer |-> getAuthHeader(store)]

(***************************************************************************)
(* AuthProvider                                                            *)
(***************************************************************************)
\* Sessions a previous visit may have left in local storage
PriorSessions ==
    {PersistSession(EmptyStorage, resp, at * MsPerSecond) :
        resp \in UNION {AuthResponses(e) : e \in Emails}, at \in (0 - MaxNow)..0}

AuthInit ==
    /\ localStorage \in {EmptyStorage} \cup PriorSessions
    /\ user = NoUser
    /\ loading = TRUE
    /\ effectRan = FALSE
    /\ authInFlight = {}
    /\ nowSec = 0
    /\ route = "/"
    /\ last = NoEvent

\* checkAuth up to its first await (lines 214-224), run by the mount effect
checkAuth ==
    /\ ~effectRan
    /\ effectRan' = TRUE
    /\ IF localStorage["auth_token"] = Null
       THEN /\ loading' = FALSE
            /\ authInFlight' = authInFlight
            /\ last' = Event("checkAuth", "resolved", "none", 0, NoToast, "none", NoResponse)
       ELSE /\ loading' = loading
            /\ authInFlight' = authInFlight \cup {Request("getMe", "none", localStorage)}
            /\ last' = Calling(Event("checkAuth", "pending", "none", 0, NoToast, "none", NoResponse),
                                <<"getMe">>, Fetches(localStorage, "getMe"))
    /\ UNCHANGED <<localStorage, user, nowSec, route, formVars, otherVars>>

\* checkAuth that sets the user and does not cache the answer
checkAuthResolvedNoCache ==
    \E req \in Pending("getMe") : \E data \in Users :
        /\ req.bearer # Null
        /\ data.id = OwnerOf(req.bearer[2])
        /\ authInFlight' = authInFlight \ {req}
        /\ user' = data
        /\ loading' = FALSE
        /\ last' = Event("checkAuth", "resolved", "ok", 200, NoToast, "none",
                         [NoResponse EXCEPT !.user = data])
        /\ UNCHANGED <<localStorage, effectRan, nowSec, route, formVars, otherVars>>

\* checkAuth after api.getMe() resolved (lines 225-226, 242-244)
checkAuthResolved ==
    \E req \in Pending("getMe") : \E data \in Users :
        /\ req.bearer # Null
        /\ data.id = OwnerOf(req.bearer[2])
        /\ authInFlight' = authInFlight \ {req}
        /\ user' = data
        /\ localStorage' = SetItem(localStorage, "user_data", Stringify(data))
        /\ loading' = FALSE
        /\ last' = Event("checkAuth", "resolved", "ok", 200, NoToast, "none",
                         [NoResponse EXCEPT !.user = data])
        /\ UNCHANGED <<effectRan, nowSec, route, formVars, otherVars>>

\* checkAuth after api.getMe() rejected (lines 227-244)
checkAuthRejected ==
    \E req \in Pending("getMe") : \E failure \in Failures :
        LET error == RequestError(failure)
            is404 == StatusIs404(error) \/ Includes(error.message, Str404)
            cachedUser == localStorage["user_data"]
            \* JSON.parse throws on a value that is not JSON
            thrown == IF is404 THEN cachedUser # Null /\ ~IsJson(cachedUser) ELSE TRUE
        IN
        /\ authInFlight' = authInFlight \ {req}
        /\ user' = IF is404 /\ cachedUser # Null /\ IsJson(cachedUser)
                   THEN Parse(cachedUser) ELSE user
        /\ localStorage' = IF thrown THEN ClearSession(localStorage) ELSE localStorage
        /\ loading' = FALSE
        /\ last' = ErrorEvent("checkAuth", "resolved", failure, NoToast)
        /\ UNCHANGED <<effectRan, nowSec, route, formVars, otherVars>>

\* login up to its await (line 249)
login ==
    \E email \in Emails :
        /\ effectRan
        /\ Cardinality(Pending("login") \cup Pending("signup")) < MaxInFlight
        /\ authInFlight' = authInFlight \cup {Request("login", email, localStorage)}
        /\ last' = Calling(Event("login", "pending", "none", 0, NoToast, "none", NoResponse),
                            <<"login">>, Fetches(localStorage, "login"))
        /\ UNCHANGED <<localStorage, user, loading, effectRan, nowSec, route, formVars, otherVars>>

\* login after api.login() resolved (lines 250-264)
loginResolved ==
    \E req \in Pending("login") : \E resp \in AuthResponses(req.email) :
        /\ authInFlight' = authInFlight \ {req}
        /\ localStorage' = PersistSession(localStorage, resp, DateNow)
        /\ user' = resp.user
        /\ route' = "/dashboard"
        /\ last' = Event("login", "resolved", "ok", 200, Toast("Welcome back!", EmptyStr), "/dashboard", resp)
        /\ UNCHANGED <<loading, effectRan, nowSec, formVars, otherVars>>

\* loginRejected that swallows the error instead of re-throwing it
loginRejectedSwallowed ==
    \E req \in Pending("login") : \E failure \in Failures :
        /\ authInFlight' = authInFlight \ {req}
        /\ last' = ErrorEvent("login", "resolved", failure,
                              Toast("Login failed", RequestError(failure).message))
        /\ UNCHANGED <<localStorage, user, loading, effectRan, nowSec, route, formVars, otherVars>>

\* login after api.login() rejected (lines 265-272)
loginRejected ==
    \E req \in Pending("login") : \E failure \in Failures :
        /\ authInFlight' = authInFlight \ {req}
        /\ last' = ErrorEvent("login", "rejected", failure,
                              Toast("Login failed", RequestError(failure).message))
        /\ UNCHANGED <<localStorage, user, loading, effectRan, nowSec, route, formVars, otherVars>>

\* signup up to its await (line 277)
signupCalled ==
    \E email \in Emails :
        /\ effectRan
        /\ Cardinality(Pending("login") \cup Pending("signup")) < MaxInFlight
        /\ authInFlight' = authInFlight \cup {Request("signup", email, localStorage)}
        /\ last' = Calling(Event("signup", "pending", "none", 0, NoToast, "none", NoResponse),
                            <<"signup">>, Fetches(localStorage, "signup"))
        /\ UNCHANGED <<localStorage, user, loading, effectRan, nowSec, route>>

\* signup called from outside the Signup page
signup == signupCalled /\ UNCHANGED <<formVars, otherVars>>

\* signup that stores the session and does not set the in-memory user
signupReturnedNoUser ==
    \E req \in Pending("signup") : \E resp \in AuthResponses(req.email) :
        /\ authInFlight' = authInFlight \ {req}
        /\ localStorage' = PersistSession(localStorage, resp, DateNow)
        /\ route' = "/dashboard"
        /\ last' = Event("signup", "resolved", "ok", 200, Toast("Account created!", EmptyStr), "/dashboard", resp)
        /\ UNCHANGED <<user, loading, effectRan, nowSec>>

\* signup after api.signup() resolved (lines 278-292)
signupReturned ==
    \E req \in Pending("signup") : \E resp \in AuthResponses(req.email) :
        /\ authInFlight' = authInFlight \ {req}
        /\ localStorage' = PersistSession(localStorage, resp, DateNow)
        /\ user' = resp.user
        /\ route' = "/dashboard"
        /\ last' = Event("signup", "resolved", "ok", 200, Toast("Account created!", EmptyStr), "/dashboard", resp)
        /\ UNCHANGED <<loading, effectRan, nowSec>>

signupResolved == signupReturned /\ UNCHANGED <<formVars, otherVars>>

\* signup after api.signup() rejected (lines 293-300)
signupThrew ==
    \E req \in Pending("signup") : \E failure \in Failures :
        /\ authInFlight' = authInFlight \ {req}
        /\ last' = ErrorEvent("signup", "rejected", failure,
                              Toast("Signup failed", RequestError(failure).message))
        /\ UNCHANGED <<localStorage, user, loading, effectRan, nowSec, route>>

signupRejected == signupThrew /\ UNCHANGED <<formVars, otherVars>>

\* logout (lines 303-313)
logout ==
    /\ effectRan
    /\ localStorage' = ClearSession(localStorage)
    /\ user' = NoUser
    /\ route' = "/login"
    /\ last' = Event("logout", "resolved", "none", 0, Toast("Logged out", EmptyStr), "/login", NoResponse)
    /\ UNCHANGED <<loading, effectRan, authInFlight, nowSec, formVars, otherVars>>

\* Date.now() advances
Tick ==
    /\ nowSec < MaxNow
    /\ nowSec' = nowSec + 1
    /\ UNCHANGED <<localStorage, user, loading, effectRan, authInFlight, route, last, formVars, otherVars>>

\* The page is loaded again: AuthProvider is constructed anew (lines 205-212),
\* local storage persists, the requests of the old page are abandoned.
Reload ==
    /\ effectRan
    /\ user' = NoUser
    /\ loading' = TRUE
    /\ effectRan' = FALSE
    /\ authInFlight' = {}
    /\ last' = NoEvent
    /\ UNCHANGED <<localStorage, nowSec, route, formVars, otherVars>>

(***************************************************************************)
(* Expenses screen: data                                                   *)
(***************************************************************************)
Today == <<"2", "0", "2", "4", "-", "0", "1", "-", "1", "5">>
Food == <<"F", "o", "o", "d">>

\* An optional value: Undef, or Some(x)
Undef == <<>>
Some(x) == <<x>>
\* a || [] for an optional array
OrEmpty(a) == IF a = Undef THEN <<>> ELSE a[1]

\* parseFloat on the text of the number input: an optional minus sign and
\* decimal digits; anything else (the empty text) is NaN
Digits == <<"0", "1", "2", "3", "4", "5", "6", "7", "8", "9">>
DigitValue(c) == (CHOOSE i \in 1..10 : Digits[i] = c) - 1
IsDigit(c) == \E i \in 1..10 : Digits[i] = c
RECURSIVE ParseDigits(_)
ParseDigits(s) ==
    IF s = <<>> THEN 0
    ELSE ParseDigits(SubSeq(s, 1, Len(s) - 1)) * 10 + DigitValue(s[Len(s)])
NaN == [nan |-> TRUE, value |-> 0]
ParseFloat(s) ==
    LET body == IF s # <<>> /\ s[1] = "-" THEN Tail(s) ELSE s IN
    IF body = <<>> \/ \E i \in 1..Len(body) : ~IsDigit(body[i]) THEN NaN
    ELSE [nan |-> FALSE,
          value |-> IF s[1] = "-" THEN 0 - ParseDigits(body) ELSE ParseDigits(body)]
\* parseFloat(text) || 0
ParseAmount(s) == IF ParseFloat(s).nan THEN 0 ELSE ParseFloat(s).value

\* What the user can type into the fields
DateInputs == {EmptyStr, Today}
AmountInputs == {EmptyStr, <<"-", "5">>, <<"1", "2">>}
CategoryInputs == {EmptyStr, Food}

\* Expenses as the backend returns them; the backend's data is not validated
\* by the client (an amount above the limit and an empty category can come back)
NoAttachments == <<>>
Expense1 ==
    [id |-> "e1", expense_date |-> Today, amount |-> 12, category |-> Food,
     merchant |-> EmptyStr, note |-> EmptyStr, tags |-> <<>>, attachments |-> NoAttachments]
Expense2 ==
    [id |-> "e2", expense_date |-> Today, amount |-> 1000000, category |-> EmptyStr,
     merchant |-> EmptyStr, note |-> EmptyStr, tags |-> <<>>, attachments |-> NoAttachments]
NoExpense ==
    [id |-> "null", expense_date |-> EmptyStr, amount |-> 0, category |-> EmptyStr,
     merchant |-> EmptyStr, note |-> EmptyStr, tags |-> <<>>, attachments |-> NoAttachments]
ExpenseLists == {<<>>, <<Expense1, Expense2>>}
\* GET /expenses never returns an expense the backend has deleted: the lists
\* an answer can carry when the ids of avoid were deleted before the request
RemoveIds(list, avoid) == SelectSeq(list, LAMBDA e : e.id \notin avoid)
Served(avoid) == {RemoveIds(list, avoid) : list \in ExpenseLists}

UploadFiles == {"receipt.png"}
NoFile == "null"
\* data of the answer of POST /s3/upload
UploadResponses(file) == {[file_key |-> "k1", original_filename |-> file]}

\* user?.id || ""
UserIdOrEmpty == IF user = NoUser THEN "" ELSE user.id

\* The form's initial value (lines 45-53) and resetForm's value (lines 196-204):
\* no attachments key
DefaultFormData ==
    [user_id |-> UserIdOrEmpty, expense_date |-> Today, amount |-> 0, category |-> EmptyStr,
     merchant |-> EmptyStr, note |-> EmptyStr, tags |-> Some(<<>>), attachments |-> Undef]

(***************************************************************************)
(* expenseSchema (lines 28-35): the issues zod reports, in the order of    *)
(* the schema's keys; keys the schema does not name are ignored            *)
(***************************************************************************)
MaxAmount == 999999
MaxCategoryLen == 100
MaxMerchantLen == 200
MaxNoteLen == 1000

Issue(path, message) == [path |-> path, message |-> message]
NoIssue == Issue("none", "none")

expenseDateIssues(v) ==
    IF Len(v) < 1 THEN <<Issue("expense_date", "Date is required")>> ELSE <<>>

\* amountIssues without the upper limit
amountIssuesNoMax(v) ==
    IF ~(v > 0) THEN <<Issue("amount", "Amount must be positive")>> ELSE <<>>

amountIssues(v) ==
    (IF ~(v > 0) THEN <<Issue("amount", "Amount must be positive")>> ELSE <<>>)
        \o (IF v > MaxAmount THEN <<Issue("amount", "Amount too large")>> ELSE <<>>)

categoryIssues(v) ==
    (IF Len(v) < 1 THEN <<Issue("category", "Category is required")>> ELSE <<>>)
        \o (IF Len(v) > MaxCategoryLen THEN <<Issue("category", "too_big")>> ELSE <<>>)

merchantIssues(v) ==
    IF Len(v) > MaxMerchantLen THEN <<Issue("merchant", "too_big")>> ELSE <<>>

noteIssues(v) ==
    IF Len(v) > MaxNoteLen THEN <<Issue("note", "too_big")>> ELSE <<>>

\* expenseSchema.safeParse(data).error.issues (empty on success)
expenseSchema(data) ==
    expenseDateIssues(data.expense_date) \o amountIssues(data.amount)
        \o categoryIssues(data.category) \o merchantIssues(data.merchant)
        \o noteIssues(data.note)

\* The form's inputs marked required (lines 242-270), in document order, with
\* the value each displays; the amount input displays formData.amount || "".
\* The browser does not dispatch the submit event while one of them is
\* empty, and reports the first such input.
RequiredInputs(data) ==
    <<[path |-> "expense_date", empty |-> data.expense_date = EmptyStr],
      [path |-> "amount", empty |-> data.amount = 0],
      [path |-> "category", empty |-> data.category = EmptyStr]>>
MissingInputs(data) == {i \in 1..3 : RequiredInputs(data)[i].empty}
FirstMissing(data) ==
    LET i == CHOOSE j \in MissingInputs(data) : \A k \in MissingInputs(data) : j <= k
    IN RequiredInputs(data)[i].path

(***************************************************************************)
(* Expenses screen: handlers                                               *)
(***************************************************************************)
NoData == [DefaultFormData EXCEPT !.user_id = ""]
\* avoid: the ids the backend had deleted when the request was issued; an
\* answer to the request holds none of them
FormRequest(kind, id, data) == [kind |-> kind, id |-> id, data |-> data, avoid |-> {}]
FormPending(kind) == {r \in expInFlight : r.kind = kind}
GetExpensesRequest == [FormRequest("getExpenses", "none", NoData) EXCEPT !.avoid = deletedIds]
PendingSubmits == FormPending("createExpense") \cup FormPending("updateExpense")

FormEvent(op, outcome, toast, shown) ==
    [op |-> op, outcome |-> outcome, toast |-> toast, shown |-> shown,
     answer |-> "none", response |-> <<>>, calls |-> <<>>, sent |-> <<>>]
\* The handler step consumed the answer of a call: "ok" with the list the
\* answer carried, or "error"
Answered(event, answer) == [event EXCEPT !.answer = answer]
Carrying(event, response) == [event EXCEPT !.answer = "ok", !.response = response]
TextToast(title, description) == [title |-> title, description |-> description]
NoTextToast == TextToast("none", "none")
NoFormEvent == FormEvent("none", "none", NoTextToast, NoIssue)

FormInit ==
    /\ expenses = <<>>
    /\ expLoading = TRUE
    /\ expEffectRan = FALSE
    /\ dialogOpen = FALSE
    /\ editingExpense = NoExpense
    /\ uploadingFile = FALSE
    /\ selectedFile = NoFile
    /\ formData = DefaultFormData
    /\ expInFlight = {}
    /\ formLast = NoFormEvent

\* loadExpenses up to its await (line 61), as the mount effect runs it
loadExpenses ==
    /\ ~expEffectRan
    /\ expEffectRan' = TRUE
    /\ expInFlight' = expInFlight \cup {GetExpensesRequest}
    /\ formLast' = Calling(FormEvent("loadExpenses", "pending", NoTextToast, NoIssue),
                            <<"getExpenses">>, Fetches(localStorage, "getExpenses"))
    /\ UNCHANGED <<expenses, expLoading, dialogOpen, editingExpense, uploadingFile,
                   selectedFile, formData, authVars, otherVars>>

\* loadExpenses with a sequencing token: the answer to a reload is dropped
\* while a reload issued later is pending
loadExpensesResolvedSequenced ==
    \E req \in FormPending("getExpenses") : \E data \in Served(req.avoid) :
        /\ expInFlight' = expInFlight \ {req}
        /\ expenses' = IF \E later \in FormPending("getExpenses") :
                                later # req /\ req.avoid \subseteq later.avoid
                       THEN expenses ELSE data
        /\ expLoading' = FALSE
        /\ formLast' = Carrying(FormEvent("loadExpenses", "resolved", NoTextToast, NoIssue),
                                 data)
        /\ UNCHANGED <<expEffectRan, dialogOpen, editingExpense, uploadingFile,
                       selectedFile, formData, authVars, otherVars>>

\* loadExpenses after api.getExpenses() resolved (lines 62, 73-75)
loadExpensesResolved ==
    \E req \in FormPending("getExpenses") : \E data \in Served(req.avoid) :
        /\ expInFlight' = expInFlight \ {req}
        /\ expenses' = data
        /\ expLoading' = FALSE
        /\ formLast' = Carrying(FormEvent("loadExpenses", "resolved", NoTextToast, NoIssue),
                                 data)
        /\ UNCHANGED <<expEffectRan, dialogOpen, editingExpense, uploadingFile,
                       selectedFile, formData, authVars, otherVars>>

\* loadExpenses after api.getExpenses() rejected (lines 63-75); the toast is
\* shown by production builds only
loadExpensesRejected ==
    \E req \in FormPending("getExpenses") : \E prod \in BOOLEAN :
        /\ expInFlight' = expInFlight \ {req}
        /\ expenses' = <<>>
        /\ expLoading' = FALSE
        /\ formLast' = Answered(FormEvent("loadExpenses", "resolved",
                                          IF prod
                                          THEN TextToast("Error", "Failed to load expenses")
                                          ELSE NoTextToast, NoIssue), "error")
        /\ UNCHANGED <<expEffectRan, dialogOpen, editingExpense, uploadingFile,
                       selectedFile, formData, authVars, otherVars>>

\* The dialog is opened by its trigger or by "Add Your First Expense"
\* (lines 224-229, 352)
openDialog ==
    /\ ~expLoading /\ ~dialogOpen
    /\ dialogOpen' = TRUE
    /\ formLast' = NoFormEvent
    /\ UNCHANGED <<expenses, expLoading, expEffectRan, editingExpense, uploadingFile,
                   selectedFile, formData, expInFlight, authVars, otherVars>>

\* The dialog is dismissed or cancelled (lines 224, 338): resetForm
\* (lines 193-205)
closeDialog ==
    /\ ~expLoading /\ dialogOpen
    /\ dialogOpen' = FALSE
    /\ editingExpense' = NoExpense
    /\ selectedFile' = NoFile
    /\ formData' = DefaultFormData
    /\ formLast' = NoFormEvent
    /\ UNCHANGED <<expenses, expLoading, expEffectRan, uploadingFile, expInFlight, authVars, otherVars>>

\* The onChange handlers of the text inputs (lines 246, 267, 277)
setField ==
    \E change \in ([field : {"expense_date"}, value : DateInputs]
                    \cup [field : {"category"}, value : CategoryInputs]) :
        /\ ~expLoading /\ dialogOpen
        /\ formData' = [formData EXCEPT ![change.field] = change.value]
        /\ formLast' = NoFormEvent
        /\ UNCHANGED <<expenses, expLoading, expEffectRan, dialogOpen, editingExpense,
                       uploadingFile, selectedFile, expInFlight, authVars, otherVars>>

\* The onChange handler of the amount input (line 257)
setAmount ==
    \E text \in AmountInputs :
        /\ ~expLoading /\ dialogOpen
        /\ formData' = [formData EXCEPT !.amount = ParseAmount(text)]
        /\ formLast' = NoFormEvent
        /\ UNCHANGED <<expenses, expLoading, expEffectRan, dialogOpen, editingExpense,
                       uploadingFile, selectedFile, expInFlight, authVars, otherVars>>

\* handleEdit (lines 178-191), from a row of the on-screen list
handleEdit ==
    \E i \in 1..Len(expenses) :
        LET expense == expenses[i] IN
        /\ ~expLoading /\ ~dialogOpen
        /\ editingExpense' = expense
        /\ formData' = [user_id |-> UserIdOrEmpty,
                        expense_date |-> expense.expense_date,
                        amount |-> expense.amount,
                        category |-> expense.category,
                        merchant |-> expense.merchant,
                        note |-> expense.note,
                        tags |-> Some(expense.tags),
                        attachments |-> Some(expense.attachments)]
        /\ dialogOpen' = TRUE
        /\ formLast' = NoFormEvent
        /\ UNCHANGED <<expenses, expLoading, expEffectRan, uploadingFile, selectedFile,
                       expInFlight, authVars, otherVars>>

\* handleFileSelect up to its await (lines 78-86); the input is disabled
\* while uploadingFile (line 299).  The request keeps the formData of the
\* render that started it.
handleFileSelect ==
    \E file \in UploadFiles :
        /\ ~expLoading /\ dialogOpen /\ ~uploadingFile
        /\ Len(OrEmpty(formData.attachments)) < MaxAttachments
        /\ Cardinality(expInFlight) < MaxInFlight
        /\ selectedFile' = file
        /\ uploadingFile' = TRUE
        /\ expInFlight' = expInFlight \cup {FormRequest("upload", file, formData)}
        /\ formLast' = Calling(FormEvent("handleFileSelect", "pending", NoTextToast, NoIssue),
                                <<"uploadFile">>, UploadFetches(localStorage))
        /\ UNCHANGED <<expenses, expLoading, expEffectRan, dialogOpen, editingExpense,
                       formData, authVars, otherVars>>

\* handleFileSelect after api.uploadFile() resolved (lines 87-102, 109-112)
handleFileSelectResolved ==
    \E req \in FormPending("upload") : \E data \in UploadResponses(req.id) :
        LET newAttachment == [name |-> data.original_filename,
                              url |-> <<"/s3/files/", data.file_key>>]
        IN
        /\ expInFlight' = expInFlight \ {req}
        /\ formData' = [req.data EXCEPT
                          !.attachments = Some(OrEmpty(req.data.attachments) \o <<newAttachment>>)]
        /\ uploadingFile' = FALSE
        /\ selectedFile' = NoFile
        /\ formLast' = Answered(FormEvent("handleFileSelect", "resolved",
                                          TextToast("File uploaded", req.id), NoIssue), "ok")
        /\ UNCHANGED <<expenses, expLoading, expEffectRan, dialogOpen, editingExpense, authVars, otherVars>>

\* handleFileSelect after api.uploadFile() rejected (lines 103-112)
handleFileSelectRejected ==
    \E req \in FormPending("upload") :
        /\ expInFlight' = expInFlight \ {req}
        /\ uploadingFile' = FALSE
        /\ selectedFile' = NoFile
        /\ formLast' = Answered(FormEvent("handleFileSelect", "rejected",
                                          TextToast("Upload failed", "error.message"),
                                          NoIssue), "error")
        /\ UNCHANGED <<expenses, expLoading, expEffectRan, dialogOpen, editingExpense,
                       formData, authVars, otherVars>>

\* array.filter((_, i) => i !== index)
RemoveAt(seq, index) == SubSeq(seq, 1, index - 1) \o SubSeq(seq, index + 1, Len(seq))

\* removeAttachment (lines 115-120)
removeAttachment ==
    \E index \in 1..Len(OrEmpty(formData.attachments)) :
        /\ ~expLoading /\ dialogOpen
        /\ formData' = [formData EXCEPT !.attachments = Some(RemoveAt(formData.attachments[1], index))]
        /\ formLast' = NoFormEvent
        /\ UNCHANGED <<expenses, expLoading, expEffectRan, dialogOpen, editingExpense,
                       uploadingFile, selectedFile, expInFlight, authVars, otherVars>>

\* The submit button is pressed while a required input is empty: the browser
\* reports that input and does not call handleSubmit (lines 238-270)
submitBlocked ==
    /\ ~expLoading /\ dialogOpen
    /\ MissingInputs(formData) # {}
    /\ formLast' = FormEvent("submit", "blocked", NoTextToast,
                             Issue(FirstMissing(formData), "valueMissing"))
    /\ UNCHANGED <<expenses, expLoading, expEffectRan, dialogOpen, editingExpense,
                   uploadingFile, selectedFile, formData, expInFlight, authVars, otherVars>>

\* submitData (lines 137-141): empty arrays are sent as undefined
SubmitData(data) ==
    [data EXCEPT !.tags = IF OrEmpty(data.tags) # <<>> THEN data.tags ELSE Undef,
                 !.attachments = IF OrEmpty(data.attachments) # <<>> THEN data.attachments
                                 ELSE Undef]

\* handleSubmit that goes on to send the data after reporting the issue
handleSubmitNoReturn ==
    LET issues == expenseSchema(formData)
        request == IF editingExpense # NoExpense
                   THEN FormRequest("updateExpense", editingExpense.id, SubmitData(formData))
                   ELSE FormRequest("createExpense", "none", SubmitData(formData))
    IN
    /\ ~expLoading /\ dialogOpen
    /\ MissingInputs(formData) = {}
    /\ Cardinality(expInFlight) < MaxInFlight
    /\ expInFlight' = expInFlight \cup {request}
    /\ formLast' = IF issues # <<>>
                   THEN FormEvent("submit", "invalid",
                                  TextToast("Validation Error", issues[1].message), issues[1])
                   ELSE Calling(FormEvent("submit", "pending", NoTextToast, NoIssue),
                                <<request.kind>>, Fetches(localStorage, request.kind))
    /\ UNCHANGED <<expenses, expLoading, expEffectRan, dialogOpen, editingExpense,
                   uploadingFile, selectedFile, formData, authVars, otherVars>>

\* handleSubmit up to its await (lines 122-147)
handleSubmit ==
    LET issues == expenseSchema(formData)
        request == IF editingExpense # NoExpense
                   THEN FormRequest("updateExpense", editingExpense.id, SubmitData(formData))
                   ELSE FormRequest("createExpense", "none", SubmitData(formData))
    IN
    /\ ~expLoading /\ dialogOpen
    /\ MissingInputs(formData) = {}
    /\ IF issues # <<>>
       THEN /\ formLast' = FormEvent("submit", "invalid",
                                     TextToast("Validation Error", issues[1].message), issues[1])
            /\ expInFlight' = expInFlight
       ELSE /\ Cardinality(expInFlight) < MaxInFlight
            /\ expInFlight' = expInFlight \cup {request}
            /\ formLast' = Calling(FormEvent("submit", "pending", NoTextToast, NoIssue),
                                    <<request.kind>>, Fetches(localStorage, request.kind))
    /\ UNCHANGED <<expenses, expLoading, expEffectRan, dialogOpen, editingExpense,
                   uploadingFile, selectedFile, formData, authVars, otherVars>>

\* handleSubmit that closes the dialog without calling resetForm
handleSubmitResolvedNoReset ==
    \E req \in PendingSubmits :
        /\ expInFlight' = (expInFlight \ {req}) \cup {GetExpensesRequest}
        /\ dialogOpen' = FALSE
        /\ formLast' = Calling(Answered(FormEvent("handleSubmit", "resolved",
                                                  TextToast("Success",
                                                            IF req.kind = "updateExpense"
                                                            THEN "Expense updated successfully"
                                                            ELSE "Expense created successfully"),
                                                  NoIssue), "ok"),
                                <<"getExpenses">>, Fetches(localStorage, "getExpenses"))
        /\ UNCHANGED <<expenses, expLoading, expEffectRan, editingExpense, uploadingFile,
                       selectedFile, formData, authVars, otherVars>>

\* handleSubmit after the create or update resolved (lines 145-152):
\* the dialog closes, resetForm, loadExpenses
handleSubmitResolved ==
    \E req \in PendingSubmits :
        /\ expInFlight' = (expInFlight \ {req}) \cup {GetExpensesRequest}
        /\ dialogOpen' = FALSE
        /\ editingExpense' = NoExpense
        /\ selectedFile' = NoFile
        /\ formData' = DefaultFormData
        /\ formLast' = Calling(Answered(FormEvent("handleSubmit", "resolved",
                                                  TextToast("Success",
                                                            IF req.kind = "updateExpense"
                                                            THEN "Expense updated successfully"
                                                            ELSE "Expense created successfully"),
                                                  NoIssue), "ok"),
                                <<"getExpenses">>, Fetches(localStorage, "getExpenses"))
        /\ UNCHANGED <<expenses, expLoading, expEffectRan, uploadingFile, authVars, otherVars>>

\* handleSubmit after the create or update rejected (lines 153-159)
handleSubmitRejected ==
    \E req \in PendingSubmits :
        /\ expInFlight' = expInFlight \ {req}
        /\ formLast' = Answered(FormEvent("handleSubmit", "rejected",
                                          TextToast("Error", "error.message"), NoIssue),
                                "error")
        /\ UNCHANGED <<expenses, expLoading, expEffectRan, dialogOpen, editingExpense,
                       uploadingFile, selectedFile, formData, authVars, otherVars>>

\* The calls the user started that have not settled; the reloads of the list
\* that follow them are not counted
UserCalls == expInFlight \ FormPending("getExpenses")

\* handleDelete up to its await (lines 162-166): the user answers confirm(),
\* and api.deleteExpense(id) is called when they confirmed. The delete buttons
\* are those of the listed expenses; the dialog, when open, covers them
handleDelete ==
    \E i \in 1..Len(expenses) : \E confirmed \in BOOLEAN :
        /\ ~expLoading
        /\ ~dialogOpen
        /\ IF confirmed
           THEN /\ Cardinality(UserCalls) < MaxInFlight
                /\ expInFlight' = expInFlight \cup
                                      {FormRequest("deleteExpense", expenses[i].id, NoData)}
                /\ formLast' = Calling(FormEvent("handleDelete", "pending", NoTextToast, NoIssue),
                                        <<"deleteExpense">>,
                                        Fetches(localStorage, "deleteExpense"))
           ELSE /\ expInFlight' = expInFlight
                /\ formLast' = FormEvent("handleDelete", "cancelled", NoTextToast, NoIssue)
        /\ UNCHANGED <<expenses, expLoading, expEffectRan, dialogOpen, editingExpense,
                       uploadingFile, selectedFile, formData, authVars, otherVars>>

\* handleDelete that does not reload the list after the delete
handleDeleteResolvedNoReload ==
    \E req \in FormPending("deleteExpense") :
        /\ req.id \notin deletedIds
        /\ deletedIds' = deletedIds \cup {req.id}
        /\ expInFlight' = expInFlight \ {req}
        /\ formLast' = Answered(FormEvent("handleDelete", "resolved",
                                          TextToast("Success", "Expense deleted successfully"),
                                          NoIssue), "ok")
        /\ UNCHANGED <<expenses, expLoading, expEffectRan, dialogOpen, editingExpense,
                       uploadingFile, selectedFile, formData, authVars, apiVars,
                       storedFiles, filesVars, profileVars, dashVars, signupVars>>

\* handleDelete after api.deleteExpense resolved (lines 166-168): the backend
\* deleted the expense, which it does once per id; the list is reloaded
handleDeleteResolved ==
    \E req \in FormPending("deleteExpense") :
        /\ req.id \notin deletedIds
        /\ deletedIds' = deletedIds \cup {req.id}
        /\ expInFlight' = (expInFlight \ {req}) \cup
                              {[GetExpensesRequest EXCEPT !.avoid = deletedIds']}
        /\ formLast' = Calling(Answered(FormEvent("handleDelete", "resolved",
                                                  TextToast("Success",
                                                            "Expense deleted successfully"),
                                                  NoIssue), "ok"),
                                <<"getExpenses">>, Fetches(localStorage, "getExpenses"))
        /\ UNCHANGED <<expenses, expLoading, expEffectRan, dialogOpen, editingExpense,
                       uploadingFile, selectedFile, formData, authVars, apiVars,
                       storedFiles, filesVars, profileVars, dashVars, signupVars>>

\* handleDelete's catch tearing the session down as checkAuth's catch does
handleDeleteRejectedClears ==
    \E req \in FormPending("deleteExpense") :
        /\ expInFlight' = expInFlight \ {req}
        /\ localStorage' = ClearSession(localStorage)
        /\ user' = NoUser
        /\ formLast' = Answered(FormEvent("handleDelete", "rejected",
                                          TextToast("Error", "Failed to delete expense"),
                                          NoIssue), "error")
        /\ UNCHANGED <<expenses, expLoading, expEffectRan, dialogOpen, editingExpense,
                       uploadingFile, selectedFile, formData, loading, effectRan,
                       authInFlight, nowSec, route, last, otherVars>>

\* handleDelete after api.deleteExpense rejected (lines 169-175): a toast with
\* a fixed text, and no reload
handleDeleteRejected ==
    \E req \in FormPending("deleteExpense") :
        /\ expInFlight' = expInFlight \ {req}
        /\ formLast' = Answered(FormEvent("handleDelete", "rejected",
                                          TextToast("Error", "Failed to delete expense"),
                                          NoIssue), "error")
        /\ UNCHANGED <<expenses, expLoading, expEffectRan, dialogOpen, editingExpense,
                       uploadingFile, selectedFile, formData, authVars, otherVars>>

(***************************************************************************)
(* Files screen (part_001, lines 19-188).  What the screen depends on of   *)
(* the backend's file store: an upload stores the file under its original  *)
(* filename, once per filename, and a listing returns the objects stored   *)
(* when it is served.                                                      *)
(***************************************************************************)
\* The files the user picks on the Files screen
ScreenFiles == UploadFiles \cup {"invoice.pdf"}
S3File(key, name) == [key |-> key, original_filename |-> name]
FileNamesOf(list) == {list[i].original_filename : i \in 1..Len(list)}
\* POST /s3/upload: the store after the upload of a file
StoreUpload(store, name) ==
    IF name \in FileNamesOf(store) THEN store
    ELSE Append(store, S3File(Len(store) + 1, name))
\* GET /s3/files issued when the store held `stored` objects: the store grows
\* only, and the answer is the store at the moment the request is served
Listings(stored) == {SubSeq(storedFiles, 1, n) : n \in stored..Len(storedFiles)}

\* file: the file of an upload, and for a listing the file whose upload
\* triggered it; stored: the number of objects in the store when a listing was
\* requested
FilesRequest(kind, file, stored) == [kind |-> kind, file |-> file, stored |-> stored]
FilesPending(kind) == {r \in filesInFlight : r.kind = kind}

BackendInit ==
    /\ deletedIds = {}
    /\ storedFiles = <<>>

\* The useState initial values (lines 20-22)
FilesInit ==
    /\ files = <<>>
    /\ filesLoading = TRUE
    /\ filesUploading = FALSE
    /\ filesEffectRan = FALSE
    /\ filesInFlight = {}

\* The Expenses screen's state but the record of its last handler
expScreenVars == <<expenses, expLoading, expEffectRan, dialogOpen, editingExpense,
                   uploadingFile, selectedFile, formData, expInFlight>>

\* The mount effect (lines 25-27): loadFiles up to its await (line 31)
loadFiles ==
    /\ ~filesEffectRan
    /\ filesEffectRan' = TRUE
    /\ filesInFlight' = filesInFlight \cup {FilesRequest("listFiles", NoFile, Len(storedFiles))}
    /\ formLast' = Calling(FormEvent("loadFiles", "pending", NoTextToast, NoIssue),
                            <<"listFiles">>, Fetches(localStorage, "listFiles"))
    /\ UNCHANGED <<files, filesLoading, filesUploading, expScreenVars, authVars, apiVars,
                   backendVars, profileVars, dashVars, signupVars>>

\* loadFiles adding the answer's files to those already shown
loadFilesResolvedAppends ==
    \E req \in FilesPending("listFiles") : \E data \in Listings(req.stored) :
        /\ filesInFlight' = filesInFlight \ {req}
        /\ files' = files \o data
        /\ filesLoading' = FALSE
        /\ formLast' = Carrying(FormEvent("loadFiles", "resolved", NoTextToast, NoIssue), data)
        /\ UNCHANGED <<filesUploading, filesEffectRan, expScreenVars, authVars, apiVars,
                       backendVars, profileVars, dashVars, signupVars>>

\* loadFiles after api.listFiles() resolved (lines 32, 39-41)
loadFilesResolved ==
    \E req \in FilesPending("listFiles") : \E data \in Listings(req.stored) :
        /\ filesInFlight' = filesInFlight \ {req}
        /\ files' = data
        /\ filesLoading' = FALSE
        /\ formLast' = Carrying(FormEvent("loadFiles", "resolved", NoTextToast, NoIssue), data)
        /\ UNCHANGED <<filesUploading, filesEffectRan, expScreenVars, authVars, apiVars,
                       backendVars, profileVars, dashVars, signupVars>>

\* loadFiles with an empty catch block
loadFilesRejectedSilent ==
    \E req \in FilesPending("listFiles") :
        /\ filesInFlight' = filesInFlight \ {req}
        /\ filesLoading' = FALSE
        /\ formLast' = Answered(FormEvent("loadFiles", "resolved", NoTextToast, NoIssue),
                                "error")
        /\ UNCHANGED <<files, filesUploading, filesEffectRan, expScreenVars, authVars, apiVars,
                       backendVars, profileVars, dashVars, signupVars>>

\* loadFiles after api.listFiles() rejected (lines 33-41): a toast, and the
\* list stays as it was
loadFilesRejected ==
    \E req \in FilesPending("listFiles") :
        /\ filesInFlight' = filesInFlight \ {req}
        /\ filesLoading' = FALSE
        /\ formLast' = Answered(FormEvent("loadFiles", "resolved",
                                          TextToast("Error", "Failed to load files"), NoIssue),
                                "error")
        /\ UNCHANGED <<files, filesUploading, filesEffectRan, expScreenVars, authVars, apiVars,
                       backendVars, profileVars, dashVars, signupVars>>

\* handleFileUpload with a file input that is not disabled during an upload
handleFileUploadNotDisabled ==
    \E file \in ScreenFiles :
        /\ ~filesLoading
        /\ filesUploading' = TRUE
        /\ filesInFlight' = filesInFlight \cup {FilesRequest("uploadFile", file, 0)}
        /\ formLast' = Calling(FormEvent("handleFileUpload", "pending", NoTextToast, NoIssue),
                               <<"uploadFile">>, UploadFetches(localStorage))
        /\ UNCHANGED <<files, filesLoading, filesEffectRan, expScreenVars, authVars, apiVars,
                       backendVars, profileVars, dashVars, signupVars>>

\* handleFileUpload up to its await (lines 44-50). The file input, which the
\* "Upload File" buttons click, is disabled while uploadingFile (lines
\* 102-108, 139); the page shows a spinner only while loading (lines 80-86)
handleFileUpload ==
    \E file \in ScreenFiles \cup {NoFile} :
        /\ ~filesLoading
        /\ ~filesUploading
        /\ IF file = NoFile
           THEN /\ UNCHANGED <<filesUploading, filesInFlight>>
                /\ formLast' = FormEvent("handleFileUpload", "ignored", NoTextToast, NoIssue)
           ELSE /\ filesUploading' = TRUE
                /\ filesInFlight' = filesInFlight \cup {FilesRequest("uploadFile", file, 0)}
                /\ formLast' = Calling(FormEvent("handleFileUpload", "pending",
                                                 NoTextToast, NoIssue),
                                       <<"uploadFile">>, UploadFetches(localStorage))
        /\ UNCHANGED <<files, filesLoading, filesEffectRan, expScreenVars, authVars, apiVars,
                       backendVars, profileVars, dashVars, signupVars>>

\* handleFileUpload after api.uploadFile resolved (lines 50-55, 62-64): the
\* backend stored the file; a toast, loadFiles() is called and not awaited
handleFileUploadResolved ==
    \E req \in FilesPending("uploadFile") :
        /\ storedFiles' = StoreUpload(storedFiles, req.file)
        /\ filesInFlight' = (filesInFlight \ {req}) \cup
                                {FilesRequest("listFiles", req.file, Len(storedFiles'))}
        /\ filesUploading' = FALSE
        /\ formLast' = Calling(Answered(FormEvent("handleFileUpload", "resolved",
                                                  TextToast("Success", req.file), NoIssue),
                                        "ok"),
                               <<"listFiles">>, Fetches(localStorage, "listFiles"))
        /\ UNCHANGED <<files, filesLoading, filesEffectRan, expScreenVars, authVars, apiVars,
                       deletedIds, profileVars, dashVars, signupVars>>

\* handleFileUpload after api.uploadFile rejected (lines 56-64)
handleFileUploadRejected ==
    \E req \in FilesPending("uploadFile") :
        /\ filesInFlight' = filesInFlight \ {req}
        /\ filesUploading' = FALSE
        /\ formLast' = Answered(FormEvent("handleFileUpload", "rejected",
                                          TextToast("Upload failed", "error.message"),
                                          NoIssue), "error")
        /\ UNCHANGED <<files, filesLoading, filesEffectRan, expScreenVars, authVars, apiVars,
                       backendVars, profileVars, dashVars, signupVars>>

(***************************************************************************)
(* Profile screen (Profile.tsx, lines 12-47)                               *)
(***************************************************************************)
NoProfile == [id |-> "null", full_name |-> "null"]
\* The profiles GET /profile answers with; full_name may be unset
Profiles == {[id |-> "p1", full_name |-> "null"], [id |-> "p1", full_name |-> "n1"]}
\* What the user types into the name input
NameInputs == {"", "n2"}

ProfileRequest(kind, name) == [kind |-> kind, full_name |-> name]
ProfilePending(kind) == {r \in profInFlight : r.kind = kind}

\* The useState initial values (lines 14-16)
ProfileInit ==
    /\ profile = NoProfile
    /\ profLoading = TRUE
    /\ fullName = ""
    /\ profEffectRan = FALSE
    /\ profInFlight = {}

\* The mount effect (lines 18-20): loadProfile up to its await (line 24)
loadProfile ==
    /\ ~profEffectRan
    /\ profEffectRan' = TRUE
    /\ profInFlight' = profInFlight \cup {ProfileRequest("getProfile", "")}
    /\ formLast' = Calling(FormEvent("loadProfile", "pending", NoTextToast, NoIssue),
                            <<"getProfile">>, Fetches(localStorage, "getProfile"))
    /\ UNCHANGED <<profile, profLoading, fullName, expScreenVars, authVars, apiVars,
                   backendVars, filesVars, dashVars, signupVars>>

\* loadProfile after api.getProfile() resolved (lines 24-26, 29-31)
loadProfileResolved ==
    \E req \in ProfilePending("getProfile") : \E data \in Profiles :
        /\ profInFlight' = profInFlight \ {req}
        /\ profile' = data
        /\ fullName' = IF data.full_name = "null" THEN "" ELSE data.full_name
        /\ profLoading' = FALSE
        /\ formLast' = Carrying(FormEvent("loadProfile", "resolved", NoTextToast, NoIssue),
                                <<data>>)
        /\ UNCHANGED <<profEffectRan, expScreenVars, authVars, apiVars, backendVars,
                       filesVars, dashVars, signupVars>>

\* loadProfile without its finally block
loadProfileRejectedNoFinally ==
    \E req \in ProfilePending("getProfile") :
        /\ profInFlight' = profInFlight \ {req}
        /\ formLast' = Answered(FormEvent("loadProfile", "resolved", NoTextToast, NoIssue),
                                "error")
        /\ UNCHANGED <<profile, profLoading, fullName, profEffectRan, expScreenVars, authVars,
                       apiVars, backendVars, filesVars, dashVars, signupVars>>

\* loadProfile after api.getProfile() rejected (lines 27-31): the catch block
\* is empty
loadProfileRejected ==
    \E req \in ProfilePending("getProfile") :
        /\ profInFlight' = profInFlight \ {req}
        /\ profLoading' = FALSE
        /\ formLast' = Answered(FormEvent("loadProfile", "resolved", NoTextToast, NoIssue),
                                "error")
        /\ UNCHANGED <<profile, fullName, profEffectRan, expScreenVars, authVars, apiVars,
                       backendVars, filesVars, dashVars, signupVars>>

\* The onChange handler of the name input (line 106)
setFullName ==
    \E text \in NameInputs :
        /\ ~profLoading
        /\ fullName' = text
        /\ formLast' = NoFormEvent
        /\ UNCHANGED <<profile, profLoading, profEffectRan, profInFlight, expScreenVars,
                       authVars, apiVars, backendVars, filesVars, dashVars, signupVars>>

\* Profile's handleSubmit calling loadProfile without awaiting the update
profileHandleSubmitNoAwait ==
    /\ ~profLoading
    /\ profInFlight' = profInFlight \cup {ProfileRequest("updateProfile", fullName),
                                          ProfileRequest("getProfile", "")}
    /\ formLast' = Calling(FormEvent("profileHandleSubmit", "pending", NoTextToast, NoIssue),
                            <<"updateProfile", "getProfile">>,
                            Fetches(localStorage, "updateProfile")
                                \o Fetches(localStorage, "getProfile"))
    /\ UNCHANGED <<profile, profLoading, fullName, profEffectRan, expScreenVars, authVars,
                   apiVars, backendVars, filesVars, dashVars, signupVars>>

\* Profile's handleSubmit up to its await (lines 34-37)
profileHandleSubmit ==
    /\ ~profLoading
    /\ profInFlight' = profInFlight \cup {ProfileRequest("updateProfile", fullName)}
    /\ formLast' = Calling(FormEvent("profileHandleSubmit", "pending", NoTextToast, NoIssue),
                            <<"updateProfile">>, Fetches(localStorage, "updateProfile"))
    /\ UNCHANGED <<profile, profLoading, fullName, profEffectRan, expScreenVars, authVars,
                   apiVars, backendVars, filesVars, dashVars, signupVars>>

\* Profile's handleSubmit after api.updateProfile resolved (lines 37-39): a
\* toast, and loadProfile() is called and not awaited
profileHandleSubmitResolved ==
    \E req \in ProfilePending("updateProfile") :
        /\ profInFlight' = (profInFlight \ {req}) \cup {ProfileRequest("getProfile", "")}
        /\ formLast' = Calling(Answered(FormEvent("profileHandleSubmit", "resolved",
                                                  TextToast("Success",
                                                            "Profile updated successfully"),
                                                  NoIssue), "ok"),
                               <<"getProfile">>, Fetches(localStorage, "getProfile"))
        /\ UNCHANGED <<profile, profLoading, fullName, profEffectRan, expScreenVars, authVars,
                       apiVars, backendVars, filesVars, dashVars, signupVars>>

\* Profile's handleSubmit after api.updateProfile rejected (lines 40-46)
profileHandleSubmitRejected ==
    \E req \in ProfilePending("updateProfile") :
        /\ profInFlight' = profInFlight \ {req}
        /\ formLast' = Answered(FormEvent("profileHandleSubmit", "rejected",
                                          TextToast("Error", "Failed to update profile"),
                                          NoIssue), "error")
        /\ UNCHANGED <<profile, profLoading, fullName, profEffectRan, expScreenVars, authVars,
                       apiVars, backendVars, filesVars, dashVars, signupVars>>

(***************************************************************************)
(* Dashboard screen (Profile.tsx, lines 160-178); setDays is never called, *)
(* so the effect of line 165 runs once                                     *)
(***************************************************************************)
\* The useState initial values (lines 161-162)
\* What GET /expenses?days=30 can answer: the lists of the Expenses screen and
\* lists of up to MaxDashLen expenses whose category is any text the form
\* accepts (a non-empty string of up to 100 characters), among them names that
\* Object.prototype defines
MaxDashLen == 2
Travel == <<"T", "r", "a", "v", "e", "l">>
ConstructorName == <<"c", "o", "n", "s", "t", "r", "u", "c", "t", "o", "r">>
ProtoName == <<"_", "_", "p", "r", "o", "t", "o", "_", "_">>
DashCategories == {Food, Travel, ConstructorName, ProtoName}
DashAmounts == {1, 2, 3}
DashIds == <<"d1", "d2", "d3", "d4">>
DashLists ==
    UNION {{[i \in 1..n |-> [Expense1 EXCEPT !.id = DashIds[i], !.amount = rows[i].amount,
                                            !.category = rows[i].category]] :
                rows \in [1..n -> [amount : DashAmounts, category : DashCategories]]} :
           n \in 1..MaxDashLen}
DashServed(avoid) == Served(avoid) \cup DashLists

\* JavaScript values of the aggregates: a number, or the string that + makes
\* of an operand that is not a number (its text is not needed)
JsNumber(n) == [type |-> "number", value |-> n]
JsString == [type |-> "string", value |-> 0]
JsUndefined == [type |-> "undefined", value |-> 0]
JsFunction == [type |-> "function", value |-> 0]
JsObject == [type |-> "object", value |-> 0]
\* {} as Record<string, number> (line 187): no own property
EmptyObject == [key \in {} |-> JsUndefined]
\* acc[key] on an object literal: __proto__ is the accessor of
\* Object.prototype, an own property is read first, and constructor is
\* inherited from Object.prototype
GetProperty(acc, key) ==
    IF key = ProtoName THEN JsObject
    ELSE IF key \in DOMAIN acc THEN acc[key]
    ELSE IF key = ConstructorName THEN JsFunction
    ELSE JsUndefined
\* value || 0
OrZero(v) == IF v.type = "undefined" \/ v = JsNumber(0) THEN JsNumber(0) ELSE v
\* value + amount: addition of two numbers, concatenation otherwise
JsAdd(v, amount) == IF v.type = "number" THEN JsNumber(v.value + amount) ELSE JsString
\* acc[key] = v: the __proto__ setter ignores a value that is not an object
SetProperty(acc, key, v) ==
    IF key = ProtoName
    THEN acc
    ELSE [k \in DOMAIN acc \cup {key} |-> IF k = key THEN v ELSE acc[k]]

\* expenses.reduce((sum, exp) => sum + exp.amount, 0) (line 180)
RECURSIVE totalExpenses(_)
totalExpenses(list) ==
    IF list = <<>> THEN 0
    ELSE totalExpenses(SubSeq(list, 1, Len(list) - 1)) + list[Len(list)].amount

\* The quotient of a division, kept as its two operands
Quotient(n, d) == [num |-> n, den |-> d]
\* expenses.length > 0 ? totalExpenses / expenses.length : 0 (line 181)
avgExpense(list) ==
    IF Len(list) > 0 THEN Quotient(totalExpenses(list), Len(list)) ELSE Quotient(0, 1)

\* The reduce of lines 182-188
RECURSIVE categoryTotals(_)
categoryTotals(list) ==
    IF list = <<>> THEN EmptyObject
    ELSE LET acc == categoryTotals(SubSeq(list, 1, Len(list) - 1))
             exp == list[Len(list)]
         IN SetProperty(acc, exp.category,
                        JsAdd(OrZero(GetProperty(acc, exp.category)), exp.amount))

DashInit ==
    /\ dashExpenses = <<>>
    /\ dashLoading = TRUE
    /\ dashEffectRan = FALSE
    /\ dashInFlight = {}

\* The effect (lines 165-167): Dashboard's loadExpenses up to its await
dashLoadExpenses ==
    /\ ~dashEffectRan
    /\ dashEffectRan' = TRUE
    /\ dashInFlight' = dashInFlight \cup {GetExpensesRequest}
    /\ formLast' = Calling(FormEvent("dashLoadExpenses", "pending", NoTextToast, NoIssue),
                            <<"getExpenses">>, Fetches(localStorage, "getExpenses"))
    /\ UNCHANGED <<dashExpenses, dashLoading, expScreenVars, authVars, apiVars, backendVars,
                   filesVars, profileVars, signupVars>>

\* Dashboard's loadExpenses after api.getExpenses(days) resolved (lines
\* 171-172, 175-177)
dashLoadExpensesResolved ==
    \E req \in dashInFlight : \E data \in DashServed(req.avoid) :
        /\ dashInFlight' = dashInFlight \ {req}
        /\ dashExpenses' = data
        /\ dashLoading' = FALSE
        /\ formLast' = Carrying(FormEvent("dashLoadExpenses", "resolved", NoTextToast, NoIssue),
                                data)
        /\ UNCHANGED <<dashEffectRan, expScreenVars, authVars, apiVars, backendVars,
                       filesVars, profileVars, signupVars>>

\* Dashboard's loadExpenses after api.getExpenses(days) rejected (lines
\* 173-177): the catch block is empty
dashLoadExpensesRejected ==
    \E req \in dashInFlight :
        /\ dashInFlight' = dashInFlight \ {req}
        /\ dashLoading' = FALSE
        /\ formLast' = Answered(FormEvent("dashLoadExpenses", "resolved", NoTextToast, NoIssue),
                                "error")
        /\ UNCHANGED <<dashExpenses, dashEffectRan, expScreenVars, authVars, apiVars,
                       backendVars, filesVars, profileVars, signupVars>>

(***************************************************************************)
(* Signup page (part_000, lines 404-552)                                   *)
(***************************************************************************)
UpperCase == {"A", "B", "C", "D", "E", "F", "G", "H", "I", "J", "K", "L", "M",
              "N", "O", "P", "Q", "R", "S", "T", "U", "V", "W", "X", "Y", "Z"}
LowerCase == {"a", "b", "c", "d", "e", "f", "g", "h", "i", "j", "k", "l", "m",
              "n", "o", "p", "q", "r", "s", "t", "u", "v", "w", "x", "y", "z"}
IsLetter(c) == c \in UpperCase \cup LowerCase
IsAlnum(c) == IsLetter(c) \/ IsDigit(c)
\* s.test(/[...]/) for a character class
HasChar(s, InClass(_)) == \E i \in 1..Len(s) : InClass(s[i])

\* The labels of a domain: the parts between its dots
RECURSIVE Labels(_)
Labels(s) ==
    IF \A i \in 1..Len(s) : s[i] # "."
    THEN <<s>>
    ELSE LET dot == CHOOSE i \in 1..Len(s) : s[i] = "." /\ \A j \in 1..(i - 1) : s[j] # "."
         IN <<SubSeq(s, 1, dot - 1)>> \o Labels(SubSeq(s, dot + 1, Len(s)))
LocalPart(s) == SubSeq(s, 1, (CHOOSE i \in 1..Len(s) : s[i] = "@") - 1)
DomainPart(s) == SubSeq(s, (CHOOSE i \in 1..Len(s) : s[i] = "@") + 1, Len(s))
OneAt(s) == Cardinality({i \in 1..Len(s) : s[i] = "@"}) = 1

\* The check of <input type="email"> (the valid e-mail address of the HTML
\* standard): atext characters, "@", and dot-separated labels of letters,
\* digits and inner hyphens. Of the punctuation of atext, the apostrophe,
\* the caret and the backquote are left out
BrowserAtext(c) ==
    IsAlnum(c) \/ c \in {".", "!", "#", "$", "%", "&", "*", "+", "/", "=", "?",
                         "_", "{", "|", "}", "~", "-"}
BrowserLabel(l) ==
    /\ l # <<>>
    /\ IsAlnum(l[1]) /\ IsAlnum(l[Len(l)])
    /\ \A i \in 1..Len(l) : IsAlnum(l[i]) \/ l[i] = "-"
BrowserEmail(s) ==
    /\ OneAt(s)
    /\ LocalPart(s) # <<>> /\ \A i \in 1..Len(LocalPart(s)) : BrowserAtext(LocalPart(s)[i])
    /\ \A k \in 1..Len(Labels(DomainPart(s))) : BrowserLabel(Labels(DomainPart(s))[k])

\* z.string().email(), zod's pattern: no leading dot and no two dots in a
\* row, a local part of letters, digits and _ + - . (and the apostrophe, left
\* out here) that does not end with a dot, "@", one or more labels each
\* followed by a dot, and a last label of two or more letters
ZodLocalChar(c) == IsAlnum(c) \/ c \in {"_", "+", "-", "."}
ZodEmail(s) ==
    /\ OneAt(s)
    /\ s[1] # "." /\ ~Includes(s, <<".", ".">>)
    /\ LET local == LocalPart(s)
           labels == Labels(DomainPart(s))
       IN /\ local # <<>>
          /\ \A i \in 1..Len(local) : ZodLocalChar(local[i])
          /\ local[Len(local)] # "."
          /\ Len(labels) >= 2
          /\ \A k \in 1..(Len(labels) - 1) :
                /\ labels[k] # <<>> /\ IsAlnum(labels[k][1])
                /\ \A i \in 1..Len(labels[k]) : IsAlnum(labels[k][i]) \/ labels[k][i] = "-"
          /\ Len(labels[Len(labels)]) >= 2
          /\ \A i \in 1..Len(labels[Len(labels)]) : IsLetter(labels[Len(labels)][i])

MaxNameLen == 100
MaxEmailLen == 255
MinPasswordLen == 8
SignupIssue(path, message) == [path |-> path, message |-> message]
IfFails(ok, path, message) == IF ok THEN <<>> ELSE <<SignupIssue(path, message)>>

\* signupSchema without the refinement that compares the two passwords
signupSchemaNoRefine(data) ==
    IfFails(Len(data.name) >= 1, "name", "Name is required")
    \o IfFails(ZodEmail(data.email), "email", "Invalid email address")
    \o IfFails(Len(data.password) >= MinPasswordLen, "password",
               "Password must be at least 8 characters")
    \o IfFails(HasChar(data.password, LAMBDA c : c \in UpperCase), "password",
               "Password must contain at least one uppercase letter")
    \o IfFails(HasChar(data.password, LAMBDA c : c \in LowerCase), "password",
               "Password must contain at least one lowercase letter")
    \o IfFails(HasChar(data.password, IsDigit), "password",
               "Password must contain at least one number")
    \o IfFails(HasChar(data.password, LAMBDA c : ~IsAlnum(c)), "password",
               "Password must contain at least one special character")

\* signupSchema.safeParse (lines 414-427): every check of a string adds its
\* issue, and the refinement runs although a string check failed
signupSchema(data) ==
    IfFails(Len(data.name) >= 1, "name", "Name is required")
    \o IfFails(Len(data.name) <= MaxNameLen, "name", "String must contain at most 100 character(s)")
    \o IfFails(ZodEmail(data.email), "email", "Invalid email address")
    \o IfFails(Len(data.email) <= MaxEmailLen, "email",
               "String must contain at most 255 character(s)")
    \o IfFails(Len(data.password) >= MinPasswordLen, "password",
               "Password must be at least 8 characters")
    \o IfFails(HasChar(data.password, LAMBDA c : c \in UpperCase), "password",
               "Password must contain at least one uppercase letter")
    \o IfFails(HasChar(data.password, LAMBDA c : c \in LowerCase), "password",
               "Password must contain at least one lowercase letter")
    \o IfFails(HasChar(data.password, IsDigit), "password",
               "Password must contain at least one number")
    \o IfFails(HasChar(data.password, LAMBDA c : ~IsAlnum(c)), "password",
               "Password must contain at least one special character")
    \o IfFails(data.password = data.confirmPassword, "confirmPassword", "Passwords don't match")

SignupFields == {"name", "email", "password", "confirmPassword"}
\* errors: {} of useState (line 435); "none": the property is not set
NoErrors == [f \in SignupFields |-> "none"]
\* issues.forEach(issue => fieldErrors[issue.path[0]] = issue.message), lines 447-451
RECURSIVE FieldErrors(_, _)
FieldErrors(issues, fieldErrors) ==
    IF issues = <<>> THEN fieldErrors
    ELSE FieldErrors(Tail(issues), [fieldErrors EXCEPT ![issues[1].path] = issues[1].message])

\* What the user types
SignupNames == {EmptyStr, <<"A", "n", "n">>}
SignupEmails ==
    {EmptyStr, <<"a", "b">>, <<"a", "@", "b">>, <<"a", "@", "b", ".", "i", "o">>}
SignupPasswords ==
    {EmptyStr, <<"a", "b", "c">>, <<"A", "b", "c", "d", "e", "f", "g", "1">>,
     <<"A", "b", "c", "d", "e", "f", "1", "!">>}

SignupData ==
    [name |-> signupName, email |-> signupEmail, password |-> signupPassword,
     confirmPassword |-> signupConfirm]
\* The inputs in document order; all are required (lines 486-531) and the
\* second has type="email"
InvalidInputs ==
    SelectSeq(<<"name", "email", "password", "confirmPassword">>,
              LAMBDA f : \/ SignupData[f] = EmptyStr
                         \/ f = "email" /\ ~BrowserEmail(signupEmail))

SignupEvent(op, outcome, reported) == [op |-> op, outcome |-> outcome, reported |-> reported]
NoSignupEvent == SignupEvent("none", "none", "none")

\* The useState initial values (lines 430-435)
SignupInit ==
    /\ signupName = EmptyStr
    /\ signupEmail = EmptyStr
    /\ signupPassword = EmptyStr
    /\ signupConfirm = EmptyStr
    /\ signupErrors = NoErrors
    /\ signupLoading = FALSE
    /\ signupLast = NoSignupEvent

\* The page shows the form while there is no user (lines 437-439)
SignupShown == route = "/signup" /\ user = NoUser

\* The onChange handlers (lines 491, 504, 517, 530)
setSignupField ==
    /\ SignupShown
    /\ \/ \E text \in SignupNames :
            signupName' = text /\ UNCHANGED <<signupEmail, signupPassword, signupConfirm>>
       \/ \E text \in SignupEmails :
            signupEmail' = text /\ UNCHANGED <<signupName, signupPassword, signupConfirm>>
       \/ \E text \in SignupPasswords :
            signupPassword' = text /\ UNCHANGED <<signupName, signupEmail, signupConfirm>>
       \/ \E text \in SignupPasswords :
            signupConfirm' = text /\ UNCHANGED <<signupName, signupEmail, signupPassword>>
    /\ signupLast' = NoSignupEvent
    /\ UNCHANGED <<signupErrors, signupLoading, authVars, formVars, apiVars, backendVars,
                   filesVars, profileVars, dashVars>>

\* A click on "Sign Up" (line 536, disabled while loading) that the browser's
\* validation of the form stops: it reports the first invalid input and
\* onSubmit does not run
signupSubmitBlocked ==
    /\ SignupShown
    /\ ~signupLoading
    /\ InvalidInputs # <<>>
    /\ signupLast' = SignupEvent("submit", "blocked", InvalidInputs[1])
    /\ UNCHANGED <<signupName, signupEmail, signupPassword, signupConfirm, signupErrors,
                   signupLoading, authVars, formVars, apiVars, backendVars, filesVars,
                   profileVars, dashVars>>

\* Signup's handleSubmit up to its await (lines 441-459)
signupHandleSubmit ==
    LET issues == signupSchema(SignupData) IN
    /\ SignupShown
    /\ ~signupLoading
    /\ InvalidInputs = <<>>
    /\ IF issues # <<>>
       THEN /\ signupErrors' = FieldErrors(issues, NoErrors)
            /\ signupLast' = SignupEvent("handleSubmit", "invalid", issues[1].path)
            /\ UNCHANGED <<signupLoading, authVars>>
       ELSE /\ signupErrors' = NoErrors
            /\ signupLoading' = TRUE
            /\ signupLast' = SignupEvent("handleSubmit", "pending", "none")
            /\ signupCalled
    /\ UNCHANGED <<signupName, signupEmail, signupPassword, signupConfirm, formVars, apiVars,
                   backendVars, filesVars, profileVars, dashVars>>

\* Signup's handleSubmit after signup() returned (lines 459-461)
signupHandleSubmitResolved ==
    /\ signupLoading
    /\ signupReturned
    /\ signupLoading' = FALSE
    /\ signupLast' = SignupEvent("handleSubmit", "resolved", "none")
    /\ UNCHANGED <<signupName, signupEmail, signupPassword, signupConfirm, signupErrors,
                   formVars, apiVars, backendVars, filesVars, profileVars, dashVars>>

\* Signup's handleSubmit after signup() threw (lines 459-461): there is no
\* catch, the finally block runs and the promise rejects
signupHandleSubmitRejected ==
    /\ signupLoading
    /\ signupThrew
    /\ signupLoading' = FALSE
    /\ signupLast' = SignupEvent("handleSubmit", "rejected", "none")
    /\ UNCHANGED <<signupName, signupEmail, signupPassword, signupConfirm, signupErrors,
                   formVars, apiVars, backendVars, filesVars, profileVars, dashVars>>

ScreensInit == BackendInit /\ FilesInit /\ ProfileInit /\ DashInit /\ SignupInit

(***************************************************************************)
(* ApiClient.request on its own (lines 65-84): what it does with the       *)
(* response fetch resolved with                                            *)
(***************************************************************************)
OkMsg == <<"o", "k">>
FieldRequiredMsg == <<"f", "i", "e", "l", "d", " ", "r", "e", "q", "u", "i", "r", "e", "d">>
\* The backend's {success, message, data} envelope; success and data pass
\* through request() untouched and are left out
Envelope(message) == [json |-> TRUE, detail |-> Str(EmptyStr), message |-> Str(message)]
\* Error bodies beyond those the handlers are run with: a detail that is an
\* array of validation errors, with and without a message beside it
DetailValues == {Str(EmptyStr), Str(NotFoundMsg), Str(Upstream404Msg),
                 Arr(1, FieldRequiredMsg), Arr(2, FieldRequiredMsg)}
MessageValues == {Str(EmptyStr), Str(UnauthorizedMsg), Str(OkMsg)}
JsonBodies == [json : {TRUE}, detail : DetailValues, message : MessageValues]
ResponseBodies == JsonBodies \cup ErrorBodies
SuccessStatuses == {200, 201}
ValidationStatus == 422
ResponseStatuses == SuccessStatuses \cup FailStatuses \cup {ValidationStatus}
\* A Response of fetch
HttpResponses == [kind : {"http"}, status : ResponseStatuses, body : ResponseBodies]
\* response.ok
Ok(response) == 200 <= response.status /\ response.status <= 299

NoBody == [json |-> FALSE, detail |-> Str(EmptyStr), message |-> Str(EmptyStr)]
NoResult == [kind |-> "none", body |-> NoBody, message |-> EmptyStr]
Returned(body) == [kind |-> "returned", body |-> body, message |-> EmptyStr]
Thrown(message) == [kind |-> "thrown", body |-> NoBody, message |-> message]
SyntaxErrorMsg == <<"U", "n", "e", "x", "p", "e", "c", "t", "e", "d", " ", "t", "o", "k", "e", "n">>

\* request() once fetch has settled (lines 78-83): response.json() on
\* success, which rejects with a SyntaxError on a body that is not JSON
RequestOutcome(response) ==
    IF response.kind = "network" THEN Thrown(RequestError(response).message)
    ELSE IF ~Ok(response) THEN Thrown(RequestError(response).message)
    ELSE IF response.body.json THEN Returned(response.body)
    ELSE Thrown(SyntaxErrorMsg)

ApiInit ==
    /\ httpResponse = NetworkFailure
    /\ requestResult = NoResult

OtherInit == ApiInit /\ ScreensInit

\* fetch settles and request() runs to its end
request ==
    /\ requestResult = NoResult
    /\ requestResult' = RequestOutcome(httpResponse)
    /\ UNCHANGED <<httpResponse, authVars, formVars, backendVars, filesVars,
                   profileVars, dashVars, signupVars>>

(***************************************************************************)
(* Specifications                                                          *)
(***************************************************************************)
\* The session store on its own: the Expenses screen is not mounted
Init == AuthInit /\ FormInit /\ OtherInit

Next ==
    \/ checkAuth
    \/ checkAuthResolved
    \/ checkAuthRejected
    \/ login
    \/ loginResolved
    \/ loginRejected
    \/ signup
    \/ signupResolved
    \/ signupRejected
    \/ logout
    \/ Tick
    \/ Reload

Spec == Init /\ [][Next]_vars


\* The Expenses screen on its own, under a settled session
InitExpenses ==
    /\ \E resp \in {r \in AuthResponses("a@x") : r.expires_in = 1 /\ r.user.name = "n1"} :
        /\ user = resp.user
        /\ localStorage = PersistSession(EmptyStorage, resp, 0)
    /\ loading = FALSE
    /\ effectRan = TRUE
    /\ authInFlight = {}
    /\ nowSec = 0
    /\ route = "/expenses"
    /\ last = NoEvent
    /\ FormInit
    /\ OtherInit

NextExpenses ==
    \/ loadExpenses
    \/ loadExpensesResolved
    \/ loadExpensesRejected
    \/ openDialog
    \/ closeDialog
    \/ setField
    \/ setAmount
    \/ handleEdit
    \/ handleFileSelect
    \/ handleFileSelectResolved
    \/ handleFileSelectRejected
    \/ removeAttachment
    \/ submitBlocked
    \/ handleSubmit
    \/ handleSubmitResolved
    \/ handleSubmitRejected

SpecExpenses == InitExpenses /\ [][NextExpenses]_vars

\* The four screens behind ProtectedRoute, each with the Navbar (part_001,
\* lines 330-416).  One visit of one screen by a signed-in user: the screen
\* is mounted at the start and stays mounted until the user logs out; the
\* handlers whose calls are pending then still run to their ends.
ScreenRoutes == {"/expenses", "/files", "/profile", "/dashboard"}

InitScreens ==
    /\ \E resp \in {r \in AuthResponses("a@x") : r.expires_in = 1 /\ r.user.name = "n1"} :
        /\ user = resp.user
        /\ localStorage = PersistSession(EmptyStorage, resp, 0)
    /\ loading = FALSE
    /\ effectRan = TRUE
    /\ authInFlight = {}
    /\ nowSec = 0
    /\ route \in ScreenRoutes
    /\ last = NoEvent
    /\ FormInit
    /\ OtherInit

NextScreens ==
    \/ route \in ScreenRoutes /\ logout
    \/ route = "/expenses" /\ loadExpenses
    \/ route = "/expenses" /\ openDialog
    \/ route = "/expenses" /\ closeDialog
    \/ route = "/expenses" /\ handleEdit
    \/ route = "/expenses" /\ handleFileSelect
    \/ route = "/expenses" /\ handleSubmit
    \/ route = "/expenses" /\ handleDelete
    \/ loadExpensesResolved
    \/ loadExpensesRejected
    \/ handleFileSelectResolved
    \/ handleFileSelectRejected
    \/ handleSubmitResolved
    \/ handleSubmitRejected
    \/ handleDeleteResolved
    \/ handleDeleteRejected
    \/ route = "/files" /\ loadFiles
    \/ route = "/files" /\ handleFileUpload
    \/ loadFilesResolved
    \/ loadFilesRejected
    \/ handleFileUploadResolved
    \/ handleFileUploadRejected
    \/ route = "/profile" /\ loadProfile
    \/ route = "/profile" /\ setFullName
    \/ route = "/profile" /\ profileHandleSubmit
    \/ loadProfileResolved
    \/ loadProfileRejected
    \/ profileHandleSubmitResolved
    \/ profileHandleSubmitRejected
    \/ route = "/dashboard" /\ dashLoadExpenses
    \/ dashLoadExpensesResolved
    \/ dashLoadExpensesRejected

SpecScreens == InitScreens /\ [][NextScreens]_vars

\* The Signup page, opened by an anonymous visitor whose session check has
\* ended
InitSignup ==
    /\ localStorage = EmptyStorage
    /\ user = NoUser
    /\ loading = FALSE
    /\ effectRan = TRUE
    /\ authInFlight = {}
    /\ nowSec = 0
    /\ route = "/signup"
    /\ last = NoEvent
    /\ FormInit
    /\ OtherInit

NextSignup ==
    \/ setSignupField
    \/ signupSubmitBlocked
    \/ signupHandleSubmit
    \/ signupHandleSubmitResolved
    \/ signupHandleSubmitRejected

SpecSignup == InitSignup /\ [][NextSignup]_vars

\* ApiClient.request on its own, for each response fetch can settle with
InitRequest ==
    /\ localStorage = EmptyStorage
    /\ user = NoUser
    /\ loading = FALSE
    /\ effectRan = TRUE
    /\ authInFlight = {}
    /\ nowSec = 0
    /\ route = "/"
    /\ last = NoEvent
    /\ FormInit
    /\ httpResponse \in HttpResponses \cup {NetworkFailure}
    /\ requestResult = NoResult
    /\ ScreensInit

NextRequest == request

SpecRequest == InitRequest /\ [][NextRequest]_vars

(***************************************************************************)
(* Properties of the session store                                         *)
(***************************************************************************)
\* A step of the handler op (every handler records itself in last; only the
\* clock leaves last alone)
Ran(op) == last'.op = op /\ nowSec' = nowSec
Expired(store) == store["tokenExpiry"] # Null /\ DateNow > store["tokenExpiry"][2]

\* C1: a login that succeeds from the anonymous state leaves user equal to the
\* response's user and exactly auth_token, tokenExpiry and user_data stored,
\* holding the response's token, now + expires_in * 1000 and the serialized
\* user; no other key is written.
C1_LoginPersistsSession ==
    [][(Ran("login") /\ last'.answer = "ok" /\ SessionState = "anonymous")
        => LET resp == last'.resp IN
           /\ user' = resp.user
           /\ KeysPresent(localStorage') = SessionKeys
           /\ localStorage'["auth_token"] = TokenString(resp.token)
           /\ localStorage'["tokenExpiry"] = NumberToString(DateNow + resp.expires_in * 1000)
           /\ localStorage'["user_data"] = Stringify(resp.user)
           /\ Parse(localStorage'["user_data"]) = resp.user
           /\ localStorage'[OtherKey] = localStorage[OtherKey]]_vars

C1_Witness ==
    /\ last.op = "login" /\ last.answer = "ok" /\ last.from = "anonymous"
    /\ user = last.resp.user
    /\ KeysPresent(localStorage) = SessionKeys

\* C2: right after logout, whatever the state before it, auth_token,
\* tokenExpiry and user_data are absent and user is null.
C2_LogoutClears ==
    last.op = "logout" => KeysPresent(localStorage) = {} /\ user = NoUser

C2_Witness ==
    /\ last.op = "logout" /\ last.from = "authenticated"
    /\ Pending("getMe") # {} /\ Pending("login") # {}
    /\ KeysPresent(localStorage) = {}

\* C3: when GET /auth/me answers 404 while auth_token and user_data are
\* stored, checkAuth ends with user equal to the cached user_data and with
\* none of the three keys removed, whatever the error body.
C3_NotFoundKeepsSession ==
    [][(Ran("checkAuth") /\ last'.answer = "error" /\ last'.status = 404
            /\ localStorage["auth_token"] # Null /\ localStorage["user_data"] # Null)
        => /\ user' = Parse(localStorage["user_data"])
           /\ KeysPresent(localStorage') = KeysPresent(localStorage)]_vars

\* C4: when GET /auth/me fails with anything but a 404, checkAuth ends with
\* the three keys absent and user null.
C4_OtherFailureClears ==
    [][(Ran("checkAuth") /\ last'.answer = "error" /\ last'.status # 404)
        => KeysPresent(localStorage') = {} /\ user' = NoUser]_vars

\* C5: a login whose backend call fails writes no key, leaves user as it was
\* (null), navigates nowhere, shows the "Login failed" toast carrying the
\* error's message and re-throws.
C5_FailedLoginChangesNothing ==
    [][(Ran("login") /\ last'.answer = "error")
        => /\ localStorage' = localStorage
           /\ user' = user
           /\ route' = route /\ last'.nav = "none"
           /\ last'.toast.title = "Login failed"
           /\ last'.toast.description # EmptyStr
           /\ last'.outcome = "rejected"]_vars

C5_Witness ==
    /\ last.op = "login" /\ last.outcome = "rejected" /\ last.status = 401
    /\ last.from = "anonymous"
    /\ user = NoUser /\ KeysPresent(localStorage) = {}
    /\ last.toast = Toast("Login failed", UnauthorizedMsg)

\* C6: auth_token, tokenExpiry and user_data are all present or all absent
\* in every reachable state.
C6_KeysTogether ==
    KeysPresent(localStorage) \in {{}, SessionKeys}

\* C7: whenever an auth_token is stored, the stored user_data and the
\* in-memory user are those of the token's owner.
C7_OneSession ==
    localStorage["auth_token"] # Null =>
        LET owner == OwnerOf(localStorage["auth_token"][2]) IN
        /\ localStorage["user_data"] # Null => Parse(localStorage["user_data"]).id = owner
        /\ user # NoUser => user.id = owner

\* C8: an initialization that completes when the stored tokenExpiry has
\* passed leaves the three keys absent and user null, whatever the backend
\* answers.
C8_ExpiredSessionInvalidated ==
    [][(Ran("checkAuth") /\ last'.outcome = "resolved" /\ Expired(localStorage))
        => KeysPresent(localStorage') = {} /\ user' = NoUser]_vars

(***************************************************************************)
(* Properties of the expense form                                          *)
(***************************************************************************)
\* The fields expenseSchema rejects
OffendingFields(data) ==
    {expenseSchema(data)[i].path : i \in 1..Len(expenseSchema(data))}

\* C9 as claimed: a submit with amount <= 0 issues no createExpense or
\* updateExpense call and the error shown is the amount's, whatever the
\* other fields hold.
C9_AmountErrorWhateverOthers ==
    [][(formLast'.op = "submit" /\ formData.amount <= 0)
        => /\ expInFlight' = expInFlight
           /\ formLast'.shown.path = "amount"]_vars

\* C9 as amended: a submit with amount <= 0 issues no createExpense or
\* updateExpense call and the error shown is that of a field the schema
\* rejects; it is the amount's whenever expense_date and category are
\* non-empty.
C9_NoCallAndOffendingFieldShown ==
    [][(formLast'.op = "submit" /\ formData.amount <= 0)
        => /\ expInFlight' = expInFlight
           /\ formLast'.outcome \in {"blocked", "invalid"}
           /\ formLast'.shown.path \in OffendingFields(formData)
           /\ (formData.expense_date # EmptyStr /\ formData.category # EmptyStr)
                => formLast'.shown.path = "amount"]_vars

C9_Witness ==
    /\ formLast.op = "submit" /\ formLast.outcome = "invalid"
    /\ formData.amount < 0 /\ formData.expense_date # EmptyStr /\ formData.category # EmptyStr
    /\ formLast.shown = Issue("amount", "Amount must be positive")
    /\ formLast.toast = TextToast("Validation Error", "Amount must be positive")
    /\ PendingSubmits = {}

\* C10: every createExpense and updateExpense request in flight carries an
\* amount with 0 < amount <= 999999 and a non-empty category.
C10_RequestsCarryValidData ==
    \A r \in PendingSubmits :
        /\ 0 < r.data.amount /\ r.data.amount <= 999999
        /\ r.data.category # EmptyStr

C10_Witness ==
    \E r \in PendingSubmits :
        /\ r.kind = "updateExpense" /\ r.id = "e2"
        /\ r.data.attachments # Undef
        /\ r.data.amount = 12

(***************************************************************************)
(* Properties of the API client                                            *)
(***************************************************************************)
\* C12: request() returns the parsed JSON body when the status is in the
\* success range; otherwise it fails with an error whose message is the
\* server's detail if non-empty, else the server's message if non-empty, else
\* "Request failed", which is also the message when the body is not JSON.
C12_RequestResult ==
    (requestResult # NoResult /\ httpResponse.kind = "http") =>
        LET body == httpResponse.body IN
        IF Ok(httpResponse)
        THEN body.json => requestResult = Returned(body)
        ELSE /\ requestResult.kind = "thrown"
             /\ requestResult.message =
                    IF body.json /\ Truthy(body.detail) THEN body.detail.text
                    ELSE IF body.json /\ Truthy(body.message) THEN body.message.text
                    ELSE RequestFailedMsg

\* The Authorization header of a request is the one the stored token calls for
CarriesStoredToken(req, store) ==
    IF store["auth_token"] # Null
    THEN req.authorization = <<"Bearer", store["auth_token"][2]>>
    ELSE req.authorization \in {Null, NoBearer}

\* C11: every request a handler issues, uploadFile's included, carries
\* "Bearer <t>" for the auth_token t stored at that moment and no bearer token
\* when none is stored; so a request issued after logout never carries the old
\* token.
C11_RequestsCarryStoredToken ==
    [][/\ UNCHANGED authVars =>
            \A i \in 1..Len(formLast'.sent) : CarriesStoredToken(formLast'.sent[i], localStorage)
       /\ UNCHANGED <<formVars, otherVars>> =>
            \A i \in 1..Len(last'.sent) : CarriesStoredToken(last'.sent[i], localStorage)]_vars

C11_Witness ==
    /\ last.op = "logout" /\ localStorage["auth_token"] = Null
    /\ formLast.op = "handleFileUpload" /\ formLast.answer = "ok"
    /\ formLast.sent # <<>> /\ formLast.sent[1].authorization = Null
    /\ \E r \in filesInFlight : r.kind = "listFiles"

\* The handler step that recorded event called fetch once for each operation
\* it invoked, and not at all when it consumed a failed answer
OneFetchPerCall(event) ==
    /\ Len(event.sent) = Len(event.calls)
    /\ \A i \in 1..Len(event.calls) : event.sent[i].op = event.calls[i]
    /\ event.answer = "error" => event.sent = <<>>
\* The requests a step put in flight
Issued ==
    Cardinality(expInFlight' \ expInFlight) + Cardinality(filesInFlight' \ filesInFlight)
        + Cardinality(profInFlight' \ profInFlight) + Cardinality(dashInFlight' \ dashInFlight)
        + Cardinality(authInFlight' \ authInFlight)

\* C13: each invocation of an API client operation calls fetch exactly once,
\* and the step in which a call's failure is consumed sends nothing: a failed
\* request is not issued again.
C13_OneRequestPerInvocation ==
    [][/\ UNCHANGED authVars => OneFetchPerCall(formLast') /\ Issued <= Len(formLast'.sent)
       /\ UNCHANGED <<formVars, otherVars>> =>
            OneFetchPerCall(last') /\ Issued <= Len(last'.sent)]_vars

C13_Witness ==
    /\ formLast.op = "handleDelete" /\ formLast.answer = "error"
    /\ formLast.sent = <<>>
    /\ expInFlight = {}
    /\ deletedIds # {}

\* The handlers of the session store
SessionHandlers == {"login", "signup", "logout", "checkAuth"}

\* C14: a step that writes or removes a local-storage key or changes the
\* in-memory user is a step of the session store's login, signup, logout or
\* checkAuth; the screens' handlers, which invoke the API client's operations
\* and consume their successes and failures, leave both alone.
C14_OnlySessionStoreWrites ==
    [][(localStorage' # localStorage \/ user' # user)
        => /\ UNCHANGED <<formVars, otherVars>>
           /\ last'.op \in SessionHandlers]_vars

C14_Witness ==
    /\ formLast.op = "handleFileUpload" /\ formLast.answer = "error"
    /\ localStorage["auth_token"] # Null
    /\ user # NoUser
    /\ last = NoEvent

(***************************************************************************)
(* Properties of the screens                                               *)
(***************************************************************************)
IdsOf(list) == {list[i].id : i \in 1..Len(list)}
\* The requests of the Expenses screen that settled in this step
SettledHere == expInFlight \ expInFlight'

\* C15: when a confirmed delete of an expense succeeds, a reload is issued
\* after the backend deleted the id, and when that reload resolves the
\* on-screen list does not contain the id; a delete of an id the backend has
\* already deleted is reported as failed by the "Failed to delete expense"
\* toast, triggers no reload and leaves the on-screen list unchanged.
C15_DeleteThenReload ==
    [][\A r \in SettledHere :
        /\ (r.kind = "deleteExpense" /\ formLast'.answer = "ok")
            => \E reload \in expInFlight' \ expInFlight :
                    reload.kind = "getExpenses" /\ r.id \in reload.avoid
        /\ (r.kind = "getExpenses" /\ formLast'.op = "loadExpenses")
            => IdsOf(expenses') \cap r.avoid = {}
        /\ (r.kind = "deleteExpense" /\ r.id \in deletedIds)
            => /\ formLast'.answer = "error"
               /\ formLast'.toast = TextToast("Error", "Failed to delete expense")
               /\ formLast'.sent = <<>>
               /\ expInFlight' = expInFlight \ {r}
               /\ expenses' = expenses]_vars

C15_Witness ==
    /\ formLast.op = "loadExpenses" /\ formLast.answer = "ok"
    /\ deletedIds = {"e1"}
    /\ expenses = <<Expense2>>
    /\ expInFlight = {}

\* How many entries of a file list carry the original filename name
Occurrences(list, name) ==
    Cardinality({i \in 1..Len(list) : list[i].original_filename = name})

C17_OneUploadInFlight ==
    /\ Cardinality(FilesPending("uploadFile")) <= 1
    /\ filesUploading <=> FilesPending("uploadFile") # {}
    /\ Cardinality(FormPending("upload")) <= 1
    /\ uploadingFile <=> FormPending("upload") # {}

C17_Witness ==
    /\ filesUploading /\ FilesPending("uploadFile") # {}
    /\ storedFiles # <<>>
    /\ formLast.op = "handleFileUpload" /\ formLast.outcome = "pending"

\* C18: whenever a reload of a screen's list resolves, the on-screen list
\* becomes the data of that response, whatever other reloads are in flight
\* and whenever they were issued; so of two overlapping reloads the one that
\* resolves last decides the list.
C18_LastResolvedWins ==
    [][/\ (formLast'.op = "loadExpenses" /\ formLast'.answer = "ok" /\ UNCHANGED authVars)
            => expenses' = formLast'.response
       /\ (formLast'.op = "loadFiles" /\ formLast'.answer = "ok" /\ UNCHANGED authVars)
            => files' = formLast'.response]_vars

\* Two deletes succeeded, the reload of the second resolved first and the
\* reload of the first resolved last: its list still shows the second expense
C18_Witness ==
    /\ formLast.op = "loadExpenses" /\ formLast.answer = "ok"
    /\ deletedIds = {"e1", "e2"}
    /\ expenses = <<Expense2>>
    /\ expInFlight = {}

\* A screen handler consumed the failure of a network call in this step
FailureConsumed == formLast'.answer = "error" /\ UNCHANGED authVars
\* The handlers whose catch block shows a toast in every build
ToastingHandlers ==
    {"handleSubmit", "handleDelete", "handleFileSelect", "handleFileUpload",
     "profileHandleSubmit", "loadFiles"}

\* C19 as claimed: every failed network call of a screen produces a
\* notification, a redirect or an emptied list.
C19_EveryFailureVisible ==
    [][FailureConsumed
        => \/ formLast'.toast # NoTextToast
           \/ route' # route
           \/ formLast'.op = "loadExpenses" /\ expenses' = <<>>
           \/ formLast'.op = "dashLoadExpenses" /\ dashExpenses' = <<>>]_vars

\* C19, amended: a failed create, update, delete, upload, profile update or
\* file listing produces a notification; a failed load of the expense list
\* leaves the Expenses screen with an empty list and the Dashboard with the
\* empty list it started with; a failed profile load is silent: it only ends
\* the loading state, and leaves the profile and the name field as they
\* were. No failure redirects.
C19_FailuresByHandler ==
    [][FailureConsumed
        => /\ route' = route
           /\ formLast'.op \in ToastingHandlers => formLast'.toast # NoTextToast
           /\ formLast'.op = "loadExpenses" => expenses' = <<>> /\ ~expLoading'
           /\ formLast'.op = "dashLoadExpenses"
                => /\ formLast'.toast = NoTextToast
                   /\ dashExpenses' = <<>> /\ ~dashLoading'
           /\ formLast'.op = "loadProfile"
                => /\ formLast'.toast = NoTextToast
                   /\ profile' = profile /\ fullName' = fullName /\ ~profLoading'
           /\ formLast'.op \in ToastingHandlers
                            \cup {"loadExpenses", "dashLoadExpenses", "loadProfile"}]_vars

\* The reload after a successful profile update failed: nothing on the screen
\* changed
C19_Witness ==
    /\ formLast.op = "loadProfile" /\ formLast.answer = "error"
    /\ formLast.toast = NoTextToast
    /\ profile # NoProfile /\ ~profLoading
    /\ profInFlight = {}

(***************************************************************************)
(* Properties of the Signup page                                           *)
(***************************************************************************)
StrongPassword(p) ==
    /\ Len(p) >= 8
    /\ \E i \in 1..Len(p) : p[i] \in UpperCase
    /\ \E i \in 1..Len(p) : p[i] \in LowerCase
    /\ \E i \in 1..Len(p) : IsDigit(p[i])
    /\ \E i \in 1..Len(p) : ~IsLetter(p[i]) /\ ~IsDigit(p[i])
\* The fields whose value is invalid: an empty name, a malformed email, a
\* password that violates a strength rule, a confirmation that differs
Offending ==
    {f \in SignupFields :
        \/ f = "name" /\ signupName = EmptyStr
        \/ f = "email" /\ ~ZodEmail(signupEmail)
        \/ f = "password" /\ ~StrongPassword(signupPassword)
        \/ f = "confirmPassword" /\ signupConfirm # signupPassword}
\* The user clicked "Sign Up" in this step
SubmitAttempt == signupLast'.outcome \in {"blocked", "invalid", "pending"}
NoSignupCall == authInFlight' = authInFlight /\ last' = last
OneSignupCall ==
    /\ last'.calls = <<"signup">> /\ Len(last'.sent) = 1
    /\ Cardinality(authInFlight' \ authInFlight) = 1
    /\ \A r \in authInFlight' \ authInFlight : r.kind = "signup"

\* C20 as claimed: a submit of the signup form with an invalid field issues
\* no signup call and records an error on each offending field; a submit
\* with all fields valid issues exactly one signup call.
C20_InvalidSubmitRecordsErrors ==
    [][SubmitAttempt
        => IF Offending # {}
           THEN NoSignupCall /\ \A f \in Offending : signupErrors'[f] # "none"
           ELSE OneSignupCall]_vars

\* C20, amended: a submit with an empty field or with an email the
\* browser's check of the email input rejects is stopped by the browser: no
\* signup call, nothing recorded, the first invalid input reported.  Any
\* other submit with an invalid field issues no signup call and records an
\* error on exactly the offending fields; a submit with all fields valid
\* records no error and issues exactly one signup call.
C20_SubmitValidated ==
    [][SubmitAttempt
        => IF InvalidInputs # <<>>
           THEN /\ NoSignupCall
                /\ signupErrors' = signupErrors
                /\ signupLast'.outcome = "blocked"
                /\ signupLast'.reported = InvalidInputs[1]
           ELSE IF Offending # {}
           THEN /\ NoSignupCall
                /\ \A f \in SignupFields : signupErrors'[f] # "none" <=> f \in Offending
           ELSE /\ OneSignupCall
                /\ signupErrors' = NoErrors]_vars

C20_Witness ==
    /\ signupLast.outcome = "invalid"
    /\ signupErrors["name"] = "none"
    /\ signupErrors["email"] = "Invalid email address"
    /\ signupErrors["password"] = "Password must contain at least one special character"
    /\ signupErrors["confirmPassword"] = "Passwords don't match"
    /\ last.op = "signup" /\ last.answer = "error"

(***************************************************************************)
(* The Dashboard of a signed-in user, from mount to its list being shown   *)
(***************************************************************************)
InitDashboard ==
    /\ \E resp \in {r \in AuthResponses("a@x") : r.expires_in = 1 /\ r.user.name = "n1"} :
        /\ user = resp.user
        /\ localStorage = PersistSession(EmptyStorage, resp, 0)
    /\ loading = FALSE
    /\ effectRan = TRUE
    /\ authInFlight = {}
    /\ nowSec = 0
    /\ route = "/dashboard"
    /\ last = NoEvent
    /\ FormInit
    /\ OtherInit

NextDashboard ==
    \/ dashLoadExpenses
    \/ dashLoadExpensesResolved
    \/ dashLoadExpensesRejected

SpecDashboard == InitDashboard /\ [][NextDashboard]_vars

(***************************************************************************)
(* The loads that run at mount, with every call answered: the session      *)
(* lookup of a page that was just opened, and the initial load of a screen *)
(* mounted under a signed-in session. A mount effect runs when its         *)
(* component mounts and the runtime runs the continuation of an awaited    *)
(* call once the call resolved or rejected.                                *)
(***************************************************************************)
InitLoads ==
    \/ AuthInit /\ FormInit /\ OtherInit
    \/ InitScreens

NextLoads ==
    \/ checkAuth
    \/ checkAuthResolved
    \/ checkAuthRejected
    \/ route = "/expenses" /\ loadExpenses
    \/ loadExpensesResolved
    \/ loadExpensesRejected
    \/ route = "/files" /\ loadFiles
    \/ loadFilesResolved
    \/ loadFilesRejected
    \/ route = "/profile" /\ loadProfile
    \/ loadProfileResolved
    \/ loadProfileRejected
    \/ route = "/dashboard" /\ dashLoadExpenses
    \/ dashLoadExpensesResolved
    \/ dashLoadExpensesRejected

LoadsFairness ==
    /\ WF_vars(checkAuth)
    /\ WF_vars(checkAuthResolved \/ checkAuthRejected)
    /\ WF_vars(route = "/expenses" /\ loadExpenses)
    /\ WF_vars(loadExpensesResolved \/ loadExpensesRejected)
    /\ WF_vars(route = "/files" /\ loadFiles)
    /\ WF_vars(loadFilesResolved \/ loadFilesRejected)
    /\ WF_vars(route = "/profile" /\ loadProfile)
    /\ WF_vars(loadProfileResolved \/ loadProfileRejected)
    /\ WF_vars(route = "/dashboard" /\ dashLoadExpenses)
    /\ WF_vars(dashLoadExpensesResolved \/ dashLoadExpensesRejected)

SpecLoads == InitLoads /\ [][NextLoads]_vars /\ LoadsFairness

(***************************************************************************)
(* Further properties of the session store                                 *)
(***************************************************************************)
\* What a login or a signup leaves behind, as a function of the state before
\* it and of the backend's outcome alone
AfterAuthCall(store, usr, at, answer, resp) ==
    IF answer = "ok"
    THEN [store |-> [store EXCEPT !["auth_token"] = TokenString(resp.token),
                                  !["tokenExpiry"] =
                                        NumberToString(DateNow + resp.expires_in * 1000),
                                  !["user_data"] = Stringify(resp.user)],
          user |-> resp.user, route |-> "/dashboard", nav |-> "/dashboard",
          outcome |-> "resolved"]
    ELSE [store |-> store, user |-> usr, route |-> at, nav |-> "none", outcome |-> "rejected"]

\* C21: login and signup are the same state machine: from the same state and
\* with the same backend outcome (the same success payload, or a failure)
\* both leave the same local-storage contents, the same in-memory user and
\* the same navigation, and both re-throw a failure.
C21_SignupLikeLogin ==
    [][((Ran("login") \/ Ran("signup")) /\ last'.answer # "none")
        => LET after == AfterAuthCall(localStorage, user, route, last'.answer, last'.resp)
           IN /\ localStorage' = after.store
              /\ user' = after.user
              /\ route' = after.route /\ last'.nav = after.nav
              /\ last'.outcome = after.outcome]_vars

C21_Witness ==
    /\ last.op = "signup" /\ last.answer = "ok" /\ last.from = "authenticated"
    /\ user = last.resp.user
    /\ localStorage["auth_token"] = TokenString(last.resp.token)
    /\ route = "/dashboard"

\* C25: when the lookup of the stored token succeeds, checkAuth sets the
\* in-memory user to the answer and stores the answer under user_data, from
\* which it reads back unchanged; auth_token, tokenExpiry and every other key
\* are as they were before the step.
C25_LookupRefreshesUserOnly ==
    [][(Ran("checkAuth") /\ last'.answer = "ok")
        => /\ user' = last'.resp.user
           /\ localStorage'["user_data"] = Stringify(last'.resp.user)
           /\ Parse(localStorage'["user_data"]) = last'.resp.user
           /\ \A key \in DOMAIN localStorage \ {"user_data"} :
                localStorage'[key] = localStorage[key]]_vars

C25_Witness ==
    /\ last.op = "checkAuth" /\ last.answer = "ok" /\ last.from = "authenticated"
    /\ user = last.resp.user
    /\ localStorage["user_data"] = Stringify(user)
    /\ localStorage["auth_token"] # Null /\ localStorage["tokenExpiry"] # Null
    /\ authInFlight = {}

\* C23: once the mount effect has run and no checkAuth, login or signup call is
\* in flight, the in-memory user is non-null exactly when auth_token is
\* stored.
C23_UserIffToken ==
    (effectRan /\ authInFlight = {})
        => (user # NoUser <=> localStorage["auth_token"] # Null)

(***************************************************************************)
(* Further properties of the screens                                       *)
(***************************************************************************)
\* The calls that reload what a screen shows, and the effects that issue them
\* when a screen mounts
ReloadCalls == {"getExpenses", "listFiles", "getProfile"}
LoadEffects == {"loadExpenses", "loadFiles", "loadProfile", "dashLoadExpenses"}
\* The handlers that change something on the backend
MutatingHandlers == {"handleSubmit", "handleDelete", "handleFileUpload", "profileHandleSubmit"}
\* The step received the answer of a call that handler op had made
MutationSettled(op) ==
    \/ /\ op = "handleSubmit"
       /\ \E r \in expInFlight \ expInFlight' : r.kind \in {"createExpense", "updateExpense"}
    \/ /\ op = "handleDelete"
       /\ \E r \in expInFlight \ expInFlight' : r.kind = "deleteExpense"
    \/ /\ op = "handleFileUpload"
       /\ \E r \in filesInFlight \ filesInFlight' : r.kind = "uploadFile"
    \/ /\ op = "profileHandleSubmit"
       /\ \E r \in profInFlight \ profInFlight' : r.kind = "updateProfile"

\* C22: a handler step makes at most one call; a reload is called either by a
\* screen's load effect or in the step in which a create, update, delete,
\* file upload or profile update received its successful answer, so the
\* mutation is no longer outstanding when its reload is; the step that
\* receives a mutation's failure makes no call at all.
C22_ReloadAfterMutationAnswered ==
    [][UNCHANGED authVars =>
        LET event == formLast'
        IN /\ Len(event.calls) <= 1
           /\ \A i \in 1..Len(event.calls) :
                event.calls[i] \in ReloadCalls =>
                    \/ event.op \in LoadEffects /\ event.answer = "none"
                    \/ /\ event.op \in MutatingHandlers /\ event.answer = "ok"
                       /\ MutationSettled(event.op)
           /\ (event.op \in MutatingHandlers /\ event.answer = "error")
                => /\ MutationSettled(event.op)
                   /\ event.calls = <<>>
                   /\ Issued = 0]_vars

C22_Witness ==
    /\ formLast.op = "profileHandleSubmit" /\ formLast.answer = "ok"
    /\ formLast.calls = <<"getProfile">>
    /\ profInFlight = {ProfileRequest("getProfile", "")}

\* C24: when an attachment upload of the expense form resolves, the form data
\* after the step is the form data before it with the new attachment appended:
\* the field edits, attachment removals and form resets made while the upload
\* was in flight are kept.
C24_UploadOnlyAppends ==
    [][(formLast'.op = "handleFileSelect" /\ formLast'.answer = "ok")
        => LET before == OrEmpty(formData.attachments)
               after == OrEmpty(formData'.attachments)
           IN /\ Len(after) = Len(before) + 1
              /\ formData' = [formData EXCEPT
                                !.attachments = Some(before \o <<after[Len(after)]>>)]]_vars

\* C26: every loading flag eventually becomes false and stays false:
\* AuthProvider's on every path of checkAuth (no token and no call, success,
\* the 404 fallback, any other failure), and the flag of the screen on the
\* route whether its initial load resolves or rejects.
C26_LoadingEnds ==
    <>[](/\ ~loading
         /\ route = "/expenses" => ~expLoading
         /\ route = "/files" => ~filesLoading
         /\ route = "/profile" => ~profLoading
         /\ route = "/dashboard" => ~dashLoading)

C26_Witness ==
    /\ route = "/profile" /\ ~loading
    /\ formLast.op = "loadProfile" /\ formLast.answer = "error"
    /\ ~profLoading /\ profInFlight = {}

\* The call a submit of the form makes: an update of the edit target when one
\* is set, a create otherwise
SubmitTarget ==
    IF editingExpense # NoExpense
    THEN FormRequest("updateExpense", editingExpense.id, SubmitData(formData))
    ELSE FormRequest("createExpense", "none", SubmitData(formData))

\* C27: a create or update that fails leaves the dialog, the form data, the
\* edit target and the on-screen list as they were; one that succeeds closes
\* the dialog and resets the form to its defaults with no edit target and no
\* selected file; a valid submit calls updateExpense for the edit target's id
\* exactly when an edit target is set and createExpense otherwise.
C27_SubmitOutcome ==
    [][/\ (formLast'.op = "handleSubmit" /\ formLast'.answer = "error")
            => UNCHANGED <<dialogOpen, formData, editingExpense, expenses>>
       /\ (formLast'.op = "handleSubmit" /\ formLast'.answer = "ok")
            => /\ ~dialogOpen'
               /\ formData' = DefaultFormData
               /\ editingExpense' = NoExpense
               /\ selectedFile' = NoFile
               /\ formLast'.toast.description =
                        IF \E r \in expInFlight \ expInFlight' : r.kind = "updateExpense"
                        THEN "Expense updated successfully"
                        ELSE "Expense created successfully"
       /\ (formLast'.op = "submit" /\ formLast'.outcome = "pending")
            => /\ expInFlight' = expInFlight \cup {SubmitTarget}
               /\ formLast'.calls = <<SubmitTarget.kind>>
               /\ SubmitTarget.kind = "updateExpense" <=> editingExpense # NoExpense]_vars

C27_Witness ==
    /\ formLast.op = "handleSubmit" /\ formLast.answer = "ok"
    /\ formLast.toast = TextToast("Success", "Expense updated successfully")
    /\ ~dialogOpen
    /\ formData = DefaultFormData
    /\ editingExpense = NoExpense
    /\ expInFlight = {GetExpensesRequest}

\* The categories of a list, and the sum of the amounts of the expenses of a
\* list that have category c
CategoriesOf(list) == {list[i].category : i \in 1..Len(list)}
AmountOf(list, c) == totalExpenses(SelectSeq(list, LAMBDA e : e.category = c))
RECURSIVE SumOfTotals(_, _)
SumOfTotals(totals, keys) ==
    IF keys = {} THEN 0
    ELSE LET key == CHOOSE k \in keys : TRUE
         IN totals[key].value + SumOfTotals(totals, keys \ {key})

\* C28: for the list the Dashboard holds, categoryTotals has one entry for
\* each category of the list, each entry is the number that is the sum of the
\* amounts of that category's expenses, the entries sum to totalExpenses, and
\* avgExpense is totalExpenses divided by the number of expenses, 0 for the
\* empty list.
C28_AggregatesConsistent ==
    LET totals == categoryTotals(dashExpenses)
    IN /\ DOMAIN totals = CategoriesOf(dashExpenses)
       /\ \A c \in DOMAIN totals : totals[c] = JsNumber(AmountOf(dashExpenses, c))
       /\ SumOfTotals(totals, DOMAIN totals) = totalExpenses(dashExpenses)
       /\ avgExpense(dashExpenses) = IF dashExpenses = <<>>
                                     THEN Quotient(0, 1)
                                     ELSE Quotient(totalExpenses(dashExpenses),
                                                   Len(dashExpenses))

====
